---------------------------- MODULE Spec2Model ----------------------------
(***************************************************************************)
(* A model of the shortfuse node tree (shortfuse/node.py), its in-memory   *)
(* backend (shortfuse/extra/memory.py), its attribute containers           *)
(* (shortfuse/attributes.py) and the FUSE adapter                          *)
(* (shortfuse/operations.py), driven by concurrent worker threads.         *)
(*                                                                         *)
(* Every adapter verb is a small program: a thread resolves the path one   *)
(* segment at a time and then runs the statements of the node method, one  *)
(* action per statement that reads or writes shared state.  A `with lock:` *)
(* block keeps the lock in descriptors_lock / children_locks from its      *)
(* first step to its last one.                                             *)
(*                                                                         *)
(* Attribute objects are mutable and shared by reference in the source.    *)
(* A node has at most two of them alive at a time: the one in              *)
(* node.attributes and the one in node._descriptor.attributes.  A thread   *)
(* that holds a reference between get_attributes() and a setter holds      *)
(* "node", "desc" or "orphan" (an object no field refers to any more).     *)
(***************************************************************************)
EXTENDS Integers, Sequences, FiniteSets, TLC

\* ------------------------------------------------------------- bounds
MaxNodes  == 3     \* node objects ever constructed, the root included
MaxHandle == 2     \* handle ids a node issues before the model stops opening it

Threads == {1, 2}
Names   == {"a", "b"}

NoNode == 0
Root   == 1
NodeIds == 1..MaxNodes

\* ------------------------------------------------------------- stat bits
S_IFDIR == 16384   \* 0o040000
S_IFREG == 32768   \* 0o100000
PermMask == 4096   \* S_IMODE keeps mode & 0o7777
TypeMask == 16     \* S_IFMT keeps mode & 0o170000: 4 bits above the 12 low ones
SysMaxSize == 2147483647  \* sys.maxsize, as far as TLC's integers reach

RECURSIVE BitOr(_, _)
BitOr(a, b) ==
    IF a = 0 THEN b
    ELSE IF b = 0 THEN a
    ELSE (IF (a % 2 = 1) \/ (b % 2 = 1) THEN 1 ELSE 0) + 2 * BitOr(a \div 2, b \div 2)

S_IMODE(mode) == mode % PermMask
S_IFMT(mode)  == ((mode \div PermMask) % TypeMask) * PermMask

\* ------------------------------------------------------------- key names
\* The attribute dictionaries are keyed by strings that the copy operations
\* cut and re-prefix; Chars gives each key the characters it is made of.
Chars ==
    [ st_mode  |-> <<"s","t","_","m","o","d","e">>,
      st_nlink |-> <<"s","t","_","n","l","i","n","k">>,
      st_uid   |-> <<"s","t","_","u","i","d">>,
      st_gid   |-> <<"s","t","_","g","i","d">>,
      st_size  |-> <<"s","t","_","s","i","z","e">>,
      st_atime |-> <<"s","t","_","a","t","i","m","e">>,
      st_mtime |-> <<"s","t","_","m","t","i","m","e">>,
      st_ctime |-> <<"s","t","_","c","t","i","m","e">>,
      mode  |-> <<"m","o","d","e">>,
      nlink |-> <<"n","l","i","n","k">>,
      uid   |-> <<"u","i","d">>,
      gid   |-> <<"g","i","d">>,
      size  |-> <<"s","i","z","e">>,
      atime |-> <<"a","t","i","m","e">>,
      mtime |-> <<"m","t","i","m","e">>,
      ctime |-> <<"c","t","i","m","e">>,
      f_bsize   |-> <<"f","_","b","s","i","z","e">>,
      f_frsize  |-> <<"f","_","f","r","s","i","z","e">>,
      f_blocks  |-> <<"f","_","b","l","o","c","k","s">>,
      f_bfree   |-> <<"f","_","b","f","r","e","e">>,
      f_bavail  |-> <<"f","_","b","a","v","a","i","l">>,
      f_files   |-> <<"f","_","f","i","l","e","s">>,
      f_ffree   |-> <<"f","_","f","f","r","e","e">>,
      f_favail  |-> <<"f","_","f","a","v","a","i","l">>,
      f_fsid    |-> <<"f","_","f","s","i","d">>,
      f_flags   |-> <<"f","_","f","l","a","g","s">>,
      f_namemax |-> <<"f","_","n","a","m","e","m","a","x">>,
      bsize   |-> <<"b","s","i","z","e">>,
      frsize  |-> <<"f","r","s","i","z","e">>,
      blocks  |-> <<"b","l","o","c","k","s">>,
      bfree   |-> <<"b","f","r","e","e">>,
      bavail  |-> <<"b","a","v","a","i","l">>,
      files   |-> <<"f","i","l","e","s">>,
      ffree   |-> <<"f","f","r","e","e">>,
      favail  |-> <<"f","a","v","a","i","l">>,
      fsid    |-> <<"f","s","i","d">>,
      flags   |-> <<"f","l","a","g","s">>,
      namemax |-> <<"n","a","m","e","m","a","x">> ]

\* The key each spelling belongs to.
Spelled ==
    [cs \in {Chars[k] : k \in DOMAIN Chars} |-> CHOOSE k \in DOMAIN Chars : Chars[k] = cs]

\* The key spelled by the characters cs ("?" for a spelling no key has).
KeyOf(cs) == IF cs \in DOMAIN Spelled THEN Spelled[cs] ELSE "?"

\* key[n:]
DropChars(k, n) == KeyOf(SubSeq(Chars[k], n + 1, Len(Chars[k])))

\* key.startswith("st_")
StartsWithSt(k) ==
    /\ Len(Chars[k]) >= 3
    /\ SubSeq(Chars[k], 1, 3) = <<"s","t","_">>

\* 'st_' + key
PrefixSt(k) == KeyOf(<<"s","t","_">> \o Chars[k])

\* 'f_' + key, the spelling NodeFSAttributes.__init__ stores a parameter under
PrefixF(k) == KeyOf(<<"f","_">> \o Chars[k])

EmptyDict == [k \in {} |-> 0]

\* dict[key] = value
SetItem(d, key, value) ==
    [k \in DOMAIN d \cup {key} |-> IF k = key THEN value ELSE d[k]]

\* ------------------------------------------------------------- attributes
\* NodeAttributes.__init__(**kwargs)
NodeAttributesInit(kwargs) ==
    LET stored(k) == IF StartsWithSt(k) THEN k ELSE PrefixSt(k)
    IN  [k2 \in {stored(k) : k \in DOMAIN kwargs} |->
            kwargs[CHOOSE k \in DOMAIN kwargs : stored(k) = k2]]

\* NodeAttributes.merge_attributes(), called without overrides
merge_attributes(a) ==
    [k2 \in {DropChars(k, 3) : k \in DOMAIN a} |->
        a[CHOOSE k \in DOMAIN a : DropChars(k, 3) = k2]]

\* MemoryNodeAttributes.copy()
AttributesCopy(a) == NodeAttributesInit(merge_attributes(a))

FSParams ==
    {"bsize", "frsize", "blocks", "bfree", "bavail", "files", "ffree",
     "favail", "fsid", "flags", "namemax"}

\* NodeFSAttributes.__init__(bsize=0, ...)
NodeFSAttributesInit(kwargs) ==
    [k2 \in {PrefixF(p) : p \in FSParams} |->
        LET p == CHOOSE q \in FSParams : PrefixF(q) = k2
        IN  IF p \in DOMAIN kwargs THEN kwargs[p] ELSE 0]

\* A copy that cuts one character too many off each key
FSAttributesCopyCutThree(f) ==
    NodeFSAttributesInit(
        [k2 \in {DropChars(k, 3) : k \in DOMAIN f} |->
            f[CHOOSE k \in DOMAIN f : DropChars(k, 3) = k2]])

\* NodeFSAttributes.copy()
FSAttributesCopy(f) ==
    NodeFSAttributesInit(
        [k2 \in {DropChars(k, 2) : k \in DOMAIN f} |->
            f[CHOOSE k \in DOMAIN f : DropChars(k, 2) = k2]])

\* NodeExtraAttributes.copy() / MemoryNodeExtraAttributes.copy(): the class of
\* the copy is the class of the original, the dictionary is passed as **kwargs
ExtraAttributesCopy(x) == [cls |-> x.cls, attrs |-> [k \in DOMAIN x.attrs |-> x.attrs[k]]]

\* NodeExtraAttributes()
NodeExtraAttributesInit == [cls |-> "NodeExtraAttributes", attrs |-> EmptyDict]

\* time.time() counts half seconds here; int() drops the half
TicksPerSecond == 2
IntTime(t) == (t \div TicksPerSecond) * TicksPerSecond


\* ------------------------------------------------------------- state
VARIABLES
    kind,                  \* class of each node object: "dir", "file", "cached", "link", or "free" (not
                           \* constructed)
    parent,                \* Node.parent
    name,                  \* Node.name
    children,              \* DirectoryNode._children
    target,                \* LinkNode.target
    attributes,            \* Node.attributes (the object the field refers to)
    fs_attributes,         \* Node.fs_attributes
    extra_attributes,      \* Node.extra_attributes
    content,               \* MemoryFileNode._content
    descriptor,            \* Node._descriptor
    node_descriptors,      \* Node._node_descriptors
    next_node_descriptor,  \* Node._next_node_descriptor
    descriptors_lock,      \* Node._descriptors_lock: the thread inside, or 0
    children_locks,        \* DirectoryNode._children_locks: the thread inside, or 0
    clock,                 \* time.time(), in half seconds; the calls modelled here
                           \* all run within one half second
    pc,                    \* where each worker thread is in its adapter call
    local,                 \* the call's arguments and local variables
    res,                   \* the call that returned or raised in the last step, if one did
    mutated                \* history: chmod, chown or utimens wrote to the node's
                           \* attributes since its descriptor was built

nodeVars   == <<kind, parent, name, children, target>>
attrVars   == <<attributes, fs_attributes, extra_attributes>>
handleVars == <<descriptor, node_descriptors, next_node_descriptor>>
lockVars   == <<descriptors_lock, children_locks>>
histVars   == <<mutated>>
vars == <<kind, parent, name, children, target, attributes, fs_attributes, extra_attributes,
          content, descriptor, node_descriptors, next_node_descriptor, descriptors_lock,
          children_locks, clock, pc, local, res, mutated>>

NoDescriptor == [live |-> FALSE]
NoChildren   == [x \in Names |-> NoNode]

NoLocal ==
    [op |-> "none", path |-> <<>>, mode |-> 0, uid |-> 0, gid |-> 0, fh |-> 0,
     atime |-> 0, mtime |-> 0, node |-> NoNode, todo |-> <<>>, new |-> NoNode,
     ref |-> "none", new_path |-> <<>>, length |-> 0, offset |-> 0, data |-> <<>>,
     attr |-> "", value |-> "", raw |-> <<>>, before |-> <<>>]
NoResult == [op |-> "none", err |-> "none", val |-> 0, node |-> NoNode, attrs |-> EmptyDict]

\* MemoryFileSystem.__init__(mode, uid, gid), as the tests mount it: 0o777, uid 0,
\* gid 0, at time 0.5
RootAttributes ==
    NodeAttributesInit(
        [mode |-> BitOr(S_IFDIR, 511), nlink |-> 2, uid |-> 0, gid |-> 0,
         atime |-> 1, mtime |-> 1, ctime |-> 1])

RootFSAttributes ==
    NodeFSAttributesInit([bsize |-> 512, blocks |-> SysMaxSize, bavail |-> SysMaxSize])

Init ==
    /\ kind = [n \in NodeIds |-> IF n = Root THEN "dir" ELSE "free"]
    /\ parent = [n \in NodeIds |-> NoNode]
    /\ name = [n \in NodeIds |-> IF n = Root THEN "/" ELSE ""]
    /\ children = [n \in NodeIds |-> NoChildren]
    /\ target = [n \in NodeIds |-> NoNode]
    /\ attributes = [n \in NodeIds |-> IF n = Root THEN RootAttributes ELSE EmptyDict]
    /\ fs_attributes = [n \in NodeIds |-> IF n = Root THEN RootFSAttributes ELSE EmptyDict]
    /\ extra_attributes = [n \in NodeIds |-> NodeExtraAttributesInit]
    /\ content = [n \in NodeIds |-> <<>>]
    /\ descriptor = [n \in NodeIds |-> NoDescriptor]
    /\ node_descriptors = [n \in NodeIds |-> {}]
    /\ next_node_descriptor = [n \in NodeIds |-> 1]
    /\ descriptors_lock = [n \in NodeIds |-> 0]
    /\ children_locks = [n \in NodeIds |-> 0]
    /\ clock = 1
    /\ pc = [t \in Threads |-> "idle"]
    /\ local = [t \in Threads |-> NoLocal]
    /\ res = NoResult
    /\ mutated = [n \in NodeIds |-> FALSE]

\* ------------------------------------------------------------- helpers
\* A check that every node passes
AnyNode(n) == TRUE

IsDirectoryNode(n) == kind[n] = "dir"
IsFileNode(n)      == kind[n] \in {"file", "cached"}
\* isinstance(node, CachedFileNode)
IsCached(n) == kind[n] = "cached"

\* A get_attributes() that overlooks the descriptor
get_attributes_of_node(n) == "node"

\* Node.get_attributes(), the body inside the lock: the object a caller gets
get_attributes(n) == IF descriptor[n].live THEN "desc" ELSE "node"

\* NodeAttributes.get_all() on the object r of node n
get_all(n, r) == IF r = "desc" THEN descriptor[n].attributes ELSE attributes[n]

\* The node type bits an attribute object holds.  No setter the adapter calls
\* changes them, so an object nothing refers to any more still holds the node's.
ObjectMode(n, r) ==
    IF r = "desc" THEN descriptor[n].attributes["st_mode"] ELSE attributes[n]["st_mode"]

\* A lock that holds nobody back
AlwaysEnter(lock, n, t) == TRUE

\* A lock that its owner cannot enter again
NotReentrant(lock, n, t) == lock[n] = 0

\* A `with lock:` may be entered by thread t
CanEnter(lock, n, t) == lock[n] \in {0, t}

\* The labels of DirectoryNode.remove_child, lines 617-620
RemoveLabels == {"rm_get1", "rm_nlink", "rm_get2", "rm_atime", "rm_get3", "rm_mtime"}

\* The node a thread's attribute reference belongs to: the directory whose
\* add_child or remove_child runs (self.parent in MemoryNode.delete and in the
\* last line of MemoryNode.rename), the node itself in chmod, chown, utimens
RefNode(t) ==
    IF \/ local[t].op \in {"unlink", "rmdir"}
       \/ local[t].op = "rename" /\ pc[t] \in RemoveLabels
    THEN parent[local[t].node]
    ELSE local[t].node

\* object._attributes[key] = value, on the object r of node n
SetAttribute(n, r, key, value) ==
    /\ attributes' =
         IF r = "node" THEN [attributes EXCEPT ![n] = SetItem(@, key, value)] ELSE attributes
    /\ descriptor' =
         IF r = "desc" THEN [descriptor EXCEPT ![n].attributes = SetItem(@, key, value)]
         ELSE descriptor

\* The call of thread t ends: it returns val or raises err
Finish(t, err, val, node, attrs) ==
    /\ pc' = [pc EXCEPT ![t] = "idle"]
    /\ local' = [local EXCEPT ![t] = NoLocal]
    /\ res' = [op |-> local[t].op, err |-> err, val |-> val, node |-> node, attrs |-> attrs]

\* The call of thread t goes on at label
Goto(t, label) ==
    /\ pc' = [pc EXCEPT ![t] = label]
    /\ res' = NoResult

\* ------------------------------------------------------------- inputs
\* The paths the calls name: the root and its entries
Paths == {<<>>} \cup {<<x>> : x \in Names}
\* The paths the calls on the tree name: the root and one entry
TreePaths == {<<>>, <<"a">>}
\* The paths chmod, chown, utimens and getattr name
SetattrPaths == {<<"a">>}
\* os.path.split(path)
Dirname(path)  == SubSeq(path, 1, Len(path) - 1)
Basename(path) == path[Len(path)]

CreateModes == {33188}          \* 0o100644, as the kernel passes it to create
MkdirModes  == {457}            \* 0o711
ChmodModes  == {73}             \* 0o111
Owners      == {1}
Handles     == 1..MaxHandle
Times       == {3}

OpenVerbs   == {"open", "opendir", "truncate"}
CreateVerbs == {"create", "mkdir"}

\* The entries that calls under way will still make (calls that make the same
\* entry take one node between them: the later one finds the earlier one's) and
\* the calls under way that will still allocate a handle id of node n
PendingCreates ==
    {local[u].path : u \in {w \in Threads : local[w].op \in CreateVerbs /\ local[w].new = NoNode}}
\* The nodes a path may come to name while a call resolves it: the root, or
\* the nodes built with the path's last name (an entry can be removed and put
\* back while the call is under way)
MayName(path) ==
    IF path = <<>> THEN {Root}
    ELSE {n \in NodeIds : kind[n] # "free" /\ n # Root /\ name[n] = Basename(path)}
PendingOpens(n) == {u \in Threads : local[u].op \in OpenVerbs /\ n \in MayName(local[u].path)}
FreeNodes      == {n \in NodeIds : kind[n] = "free"}

\* ------------------------------------------------------------- the host runtime
\* A worker thread takes the next call from the kernel.
Start(t, verb, a) ==
    /\ pc[t] = "idle"
    /\ verb \in CreateVerbs => Cardinality(FreeNodes) > Cardinality(PendingCreates \ {a.path})
    /\ verb \in OpenVerbs =>
         \A n \in MayName(a.path) :
            next_node_descriptor[n] + Cardinality(PendingOpens(n)) <= MaxHandle
    /\ LET todo == IF verb \in CreateVerbs THEN Dirname(a.path) ELSE a.path
       IN  /\ local' = [local EXCEPT ![t] =
                          [a EXCEPT !.op = verb, !.node = Root, !.todo = todo]]
           /\ pc' = [pc EXCEPT ![t] = IF todo = <<>> THEN "act" ELSE "resolve"]
    /\ res' = NoResult
    /\ UNCHANGED <<nodeVars, attrVars, handleVars, lockVars, clock, content, histVars>>

\* The calls the kernel makes while it works on the tree
TreeCall(t) ==
    \/ \E p \in TreePaths : \E v \in {"unlink", "rmdir"} :
          Start(t, v, [NoLocal EXCEPT !.path = p])
    \/ Start(t, "opendir", [NoLocal EXCEPT !.path = <<>>])
    \/ \E h \in Handles :
          Start(t, "releasedir", [NoLocal EXCEPT !.path = <<>>, !.fh = h])
    \/ \E p \in TreePaths \ {<<>>}, m \in CreateModes :
          Start(t, "create", [NoLocal EXCEPT !.path = p, !.mode = m])
    \/ \E p \in TreePaths \ {<<>>}, m \in MkdirModes :
          Start(t, "mkdir", [NoLocal EXCEPT !.path = p, !.mode = m])

\* The calls the kernel makes while it works on the handles of the nodes of a
\* tree it leaves as it is
HandleCall(t) ==
    \/ \E p \in TreePaths : \E v \in {"opendir", "open"} :
          Start(t, v, [NoLocal EXCEPT !.path = p])
    \/ \E p \in TreePaths, h \in Handles : \E v \in {"releasedir", "release"} :
          Start(t, v, [NoLocal EXCEPT !.path = p, !.fh = h])

\* The calls the kernel makes while it works on the attributes of one file
AttrCall(t) ==
    \/ \E p \in SetattrPaths : \E v \in {"open", "getattr"} :
          Start(t, v, [NoLocal EXCEPT !.path = p])
    \/ \E p \in SetattrPaths, h \in Handles :
          Start(t, "release", [NoLocal EXCEPT !.path = p, !.fh = h])
    \/ \E p \in SetattrPaths, m \in ChmodModes :
          Start(t, "chmod", [NoLocal EXCEPT !.path = p, !.mode = m])
    \/ \E p \in SetattrPaths, u \in Owners, g \in Owners :
          Start(t, "chown", [NoLocal EXCEPT !.path = p, !.uid = u, !.gid = g])
    \/ \E p \in SetattrPaths, ta \in Times, tm \in Times :
          Start(t, "utimens", [NoLocal EXCEPT !.path = p, !.atime = ta, !.mtime = tm])

\* ------------------------------------------------------------- path resolution
\* DirectoryNode.get_direct_child(name), the lookup inside the lock: NoNode
\* stands for the ENOENT it raises when the name is no key of the dictionary
get_direct_child(d, x) == IF x \in DOMAIN children[d] THEN children[d][x] ELSE NoNode

\* The path separator
SEPARATOR == "/"

\* path.split(SEPARATOR) on a path given as its characters; the names of this
\* model are one character long, so a part is the empty string or one name
RECURSIVE Split(_)
Split(s) ==
    LET part(cs) == IF cs = <<>> THEN "" ELSE cs[1]
    IN  IF \A i \in 1..Len(s) : s[i] # SEPARATOR
        THEN <<part(s)>>
        ELSE LET i == CHOOSE i \in 1..Len(s) :
                         s[i] = SEPARATOR /\ \A j \in 1..(i - 1) : s[j] # SEPARATOR
             IN  <<part(SubSeq(s, 1, i - 1))>> \o Split(SubSeq(s, i + 1, Len(s)))

\* A loop that looks every part up
NoEmptyPart(x) == FALSE

\* DirectoryNode.get_child, line 515: `if not part`
EmptyPart(x) == x = ""

\* One turn of the loop of DirectoryNode.get_child(path)
Resolve(t) ==
    /\ pc[t] = "resolve"
    /\ LET d == local[t].node
           x == Head(local[t].todo)
           rest == Tail(local[t].todo)
       IN  IF EmptyPart(x)
           THEN \* `continue`
                /\ local' = [local EXCEPT ![t].todo = rest]
                /\ pc' = [pc EXCEPT ![t] = IF rest = <<>> THEN "act" ELSE "resolve"]
                /\ res' = NoResult
           ELSE IF ~IsDirectoryNode(d)
           THEN Finish(t, "ENOENT", 0, d, EmptyDict)
           ELSE /\ CanEnter(children_locks, d, t)
                /\ IF get_direct_child(d, x) = NoNode
                   THEN Finish(t, "ENOENT", 0, d, EmptyDict)
                   ELSE /\ local' = [local EXCEPT ![t].node = get_direct_child(d, x),
                                                  ![t].todo = rest]
                        /\ pc' = [pc EXCEPT ![t] = IF rest = <<>> THEN "act" ELSE "resolve"]
                        /\ res' = NoResult
    /\ UNCHANGED <<nodeVars, attrVars, handleVars, lockVars, clock, content, histVars>>

\* DirectoryNode.get_child, line 521: the loop is over, the node is returned
ActGetChild(t) ==
    /\ pc[t] = "act"
    /\ local[t].op = "get_child"
    /\ Finish(t, "OK", 0, local[t].node, EmptyDict)
    /\ UNCHANGED <<nodeVars, attrVars, handleVars, lockVars, clock, content, histVars>>

\* ------------------------------------------------------------- Node.open
\* NodeDescriptor.__init__(node), as _create_node_descriptor of the in-memory
\* nodes calls it; serial tells one descriptor object of a node from the next
NodeDescriptorInit(n) ==
    [live |-> TRUE,
     serial |-> next_node_descriptor[n],
     attributes |-> AttributesCopy(attributes[n]),
     fs_attributes |-> FSAttributesCopy(fs_attributes[n]),
     extra_attributes |-> ExtraAttributesCopy(extra_attributes[n])]

\* A file descriptor that starts from an empty content
EmptyDescriptorInit(n) ==
    IF IsFileNode(n) /\ ~IsCached(n)
    THEN NodeDescriptorInit(n) @@ [content |-> <<>>]
    ELSE NodeDescriptorInit(n)

\* A file descriptor that starts from zero bytes, as many as the node holds
ZeroedDescriptorInit(n) ==
    IF IsFileNode(n) /\ ~IsCached(n)
    THEN NodeDescriptorInit(n) @@ [content |-> [i \in 1..Len(content[n]) |-> 0]]
    ELSE NodeDescriptorInit(n)

\* MemoryFileDescriptor.__init__(node): a file's descriptor also takes the
\* node's content
MemoryDescriptorInit(n) ==
    IF IsFileNode(n) /\ ~IsCached(n)
    THEN NodeDescriptorInit(n) @@ [content |-> content[n]]
    ELSE NodeDescriptorInit(n)

\* An open that builds a descriptor every time
DescriptorAlwaysMissing(n) == TRUE

\* Node.open, line 113: `if not self._descriptor`
DescriptorMissing(n) == ~descriptor[n].live

\* Node.open, lines 111-114: enter the lock, read the next id, build the
\* descriptor if there is none
OpenEnter(t, n) ==
    /\ CanEnter(descriptors_lock, n, t)
    /\ descriptors_lock' = [descriptors_lock EXCEPT ![n] = t]
    /\ local' = [local EXCEPT ![t].node = n, ![t].fh = next_node_descriptor[n],
                              ![t].new = NoNode, ![t].ref = "none"]
    /\ IF DescriptorMissing(n) /\ IsCached(n)
       THEN \* CachedFileNode._create_node_descriptor: the file is loaded first
            /\ Goto(t, "load")
            /\ UNCHANGED <<descriptor, histVars>>
       ELSE IF DescriptorMissing(n)
       THEN /\ descriptor' = [descriptor EXCEPT ![n] = MemoryDescriptorInit(n)]
            /\ mutated' = [mutated EXCEPT ![n] = FALSE]
            /\ Goto(t, "open_add")
       ELSE /\ Goto(t, "open_add")
            /\ UNCHANGED <<descriptor, histVars>>
    /\ UNCHANGED <<nodeVars, attrVars, node_descriptors, next_node_descriptor,
                   children_locks, clock, content>>

\* Node.open, line 115
OpenAdd(t) ==
    /\ pc[t] = "open_add"
    /\ node_descriptors' =
         [node_descriptors EXCEPT ![local[t].node] = @ \cup {local[t].fh}]
    /\ Goto(t, "open_ret")
    /\ UNCHANGED <<nodeVars, attrVars, descriptor, next_node_descriptor, lockVars,
                   clock, content, local, histVars>>

\* A counter that stays where it is
SameDescriptor(c) == c

\* Node.open, line 116: `self._next_node_descriptor += 1`
NextDescriptor(c) == c + 1

\* Node.open, lines 116-117, and the adapter's return
OpenReturn(t) ==
    /\ pc[t] = "open_ret"
    /\ next_node_descriptor' =
         [next_node_descriptor EXCEPT ![local[t].node] = NextDescriptor(@)]
    /\ descriptors_lock' = [descriptors_lock EXCEPT ![local[t].node] = 0]
    /\ IF local[t].op = "truncate"
       THEN \* Shortfuse.truncate, line 529: fh = node.open()
            /\ Goto(t, "tr_desc")
            /\ UNCHANGED local
       ELSE Finish(t, "OK", local[t].fh, local[t].node, EmptyDict)
    /\ UNCHANGED <<nodeVars, attrVars, descriptor, node_descriptors, children_locks,
                   clock, content, histVars>>

\* Shortfuse.open / Shortfuse.opendir
ActOpen(t) ==
    /\ pc[t] = "act"
    /\ local[t].op \in {"open", "opendir"}
    /\ LET n == local[t].node
       IN  IF local[t].op = "open" /\ ~IsFileNode(n)
           THEN /\ Finish(t, "EISDIR", 0, n, EmptyDict)
                /\ UNCHANGED <<nodeVars, attrVars, handleVars, lockVars, clock, content, histVars>>
           ELSE IF local[t].op = "opendir" /\ ~IsDirectoryNode(n)
           THEN /\ Finish(t, "ENOTDIR", 0, n, EmptyDict)
                /\ UNCHANGED <<nodeVars, attrVars, handleVars, lockVars, clock, content, histVars>>
           ELSE OpenEnter(t, n)

\* ------------------------------------------------------------- CachedFileNode
\* The content of a temporary file that does not exist: os.path.isfile(temp_path)
\* is false
NoFile == <<-1>>

\* The number of bytes the store holds for a file
LoadSize == 1

\* A truncate that pads and never cuts
PadOnly(c, length) ==
    [i \in 1..(IF length >= Len(c) THEN length ELSE Len(c)) |-> IF i <= Len(c) THEN c[i] ELSE 0]

\* The first length bytes of c, padded with zero bytes
Resize(c, length) == [i \in 1..length |-> IF i <= Len(c) THEN c[i] ELSE 0]

\* An open that has put its handle into the set before the file is loaded
LoadFailsAfterAdd(t, err) ==
    /\ descriptors_lock' = [descriptors_lock EXCEPT ![local[t].node] = 0]
    /\ node_descriptors' = [node_descriptors EXCEPT ![local[t].node] = @ \cup {local[t].fh}]
    /\ Finish(t, err, 0, local[t].node, EmptyDict)
    /\ UNCHANGED <<attrVars, content, descriptor, next_node_descriptor, histVars>>

\* CachedFileNode._load_file raises err: Node.open is left through its with
\* block, before line 115
LoadFails(t, err) ==
    /\ descriptors_lock' = [descriptors_lock EXCEPT ![local[t].node] = 0]
    /\ Finish(t, err, 0, local[t].node, EmptyDict)
    /\ UNCHANGED <<attrVars, content, handleVars, histVars>>

\* CachedFileNode._create_node_descriptor, within Node.open line 114:
\* _load_file enters the node's lock again, opens the temporary file or loads it
\* from the store and writes its size to the node's attributes; then
\* CachedFileDescriptor.__init__ copies the attributes
Load(t) ==
    /\ pc[t] = "load"
    /\ LET n == local[t].node
       IN  /\ CanEnter(descriptors_lock, n, t)
           /\ \/ LoadFails(t, IF content[n] = NoFile THEN "EIO" ELSE "OSError")
              \/ /\ IF content[n] = NoFile
                    THEN /\ content' = [content EXCEPT ![n] = Resize(<<>>, LoadSize)]
                         /\ attributes' =
                              [attributes EXCEPT ![n] = SetItem(@, "st_size", LoadSize)]
                         /\ descriptor' =
                              [descriptor EXCEPT ![n] =
                                 [NodeDescriptorInit(n) EXCEPT !.attributes =
                                    AttributesCopy(SetItem(attributes[n], "st_size", LoadSize))]]
                    ELSE /\ descriptor' = [descriptor EXCEPT ![n] = NodeDescriptorInit(n)]
                         /\ UNCHANGED <<attributes, content>>
                 /\ mutated' = [mutated EXCEPT ![n] = FALSE]
                 /\ Goto(t, "open_add")
                 /\ UNCHANGED <<fs_attributes, extra_attributes, node_descriptors,
                                next_node_descriptor, descriptors_lock, local>>
    /\ UNCHANGED <<nodeVars, children_locks, clock>>

\* ------------------------------------------------------------- Node.close
\* A get_descriptor that takes any handle
AnyHandle(n, fh) == FALSE

\* Node.get_descriptor(node_handle): whether it raises EBADF
BadHandle(n, fh) == fh \notin node_descriptors[n]

\* Node.close, lines 139-141: enter the lock, look the handle up, remove it
CloseEnter(t, n) ==
    /\ CanEnter(descriptors_lock, n, t)
    /\ IF BadHandle(n, local[t].fh)
       THEN /\ Finish(t, "EBADF", 0, n, EmptyDict)
            /\ UNCHANGED <<node_descriptors, descriptors_lock>>
       ELSE /\ node_descriptors' = [node_descriptors EXCEPT ![n] = @ \ {local[t].fh}]
            /\ descriptors_lock' = [descriptors_lock EXCEPT ![n] = t]
            /\ Goto(t, "close_end")
            /\ UNCHANGED local
    /\ UNCHANGED <<nodeVars, attrVars, descriptor, next_node_descriptor, children_locks,
                   clock, content, histVars>>

\* A reference to one of the node's attribute objects, after the descriptor's
\* object has become node.attributes
AfterFree(r) ==
    IF r = "desc" THEN "node" ELSE IF r = "node" THEN "orphan" ELSE r

\* MemoryFileNode._free_node_descriptor / MemoryDirectoryNode._free_node_descriptor:
\* the node's fields now refer to the descriptor's objects
free_node_descriptor(n) ==
    /\ content' = IF IsFileNode(n) /\ ~IsCached(n)
                  THEN [content EXCEPT ![n] = descriptor[n].content]
                  ELSE content
    /\ attributes' = [attributes EXCEPT ![n] = descriptor[n].attributes]
    /\ fs_attributes' = [fs_attributes EXCEPT ![n] = descriptor[n].fs_attributes]
    /\ extra_attributes' = [extra_attributes EXCEPT ![n] = descriptor[n].extra_attributes]

\* A test of the count as it was before the handle was removed
OneDescriptorLeft(n) == Cardinality(node_descriptors[n]) = 1

\* Node.close, line 142: `if len(self._node_descriptors) == 0`
NoDescriptorLeft(n) == node_descriptors[n] = {}

\* Node.close, lines 142-145, and the adapter's return
CloseEnd(t) ==
    /\ pc[t] = "close_end"
    /\ LET n == local[t].node
       IN  /\ IF NoDescriptorLeft(n)
              THEN /\ free_node_descriptor(n)
                   /\ descriptor' = [descriptor EXCEPT ![n] = NoDescriptor]
                   /\ mutated' = [mutated EXCEPT ![n] = FALSE]
                   /\ local' = [u \in Threads |->
                                  IF u = t THEN NoLocal
                                  ELSE IF pc[u] # "idle" /\ RefNode(u) = n
                                  THEN [local[u] EXCEPT !.ref = AfterFree(@)]
                                  ELSE local[u]]
              ELSE /\ UNCHANGED <<attrVars, content, descriptor, histVars>>
                   /\ local' = [local EXCEPT ![t] = NoLocal]
           /\ descriptors_lock' = [descriptors_lock EXCEPT ![n] = 0]
           /\ pc' = [pc EXCEPT ![t] = "idle"]
           /\ res' = [op |-> local[t].op, err |-> "OK", val |-> 0, node |-> n,
                      attrs |-> EmptyDict]
    /\ UNCHANGED <<nodeVars, node_descriptors, next_node_descriptor, children_locks, clock>>

\* Shortfuse.release / Shortfuse.releasedir
ActClose(t) ==
    /\ pc[t] = "act"
    /\ local[t].op \in {"release", "releasedir"}
    /\ LET n == local[t].node
       IN  IF local[t].op = "release" /\ ~IsFileNode(n)
           THEN /\ Finish(t, "EISDIR", 0, n, EmptyDict)
                /\ UNCHANGED <<nodeVars, attrVars, handleVars, lockVars, clock, content, histVars>>
           ELSE IF local[t].op = "releasedir" /\ ~IsDirectoryNode(n)
           THEN /\ Finish(t, "ENOTDIR", 0, n, EmptyDict)
                /\ UNCHANGED <<nodeVars, attrVars, handleVars, lockVars, clock, content, histVars>>
           ELSE CloseEnter(t, n)

\* Node.close, line 143, on a CachedFileNode: CachedFileDescriptor.free raises
\* when the file object cannot be closed; line 144 is not reached
CloseRaise(t) ==
    /\ pc[t] = "close_end"
    /\ IsCached(local[t].node)
    /\ NoDescriptorLeft(local[t].node)
    /\ descriptors_lock' = [descriptors_lock EXCEPT ![local[t].node] = 0]
    /\ Finish(t, "OSError", 0, local[t].node, EmptyDict)
    /\ UNCHANGED <<nodeVars, attrVars, content, handleVars, children_locks, clock, histVars>>

\* ------------------------------------------------------------- truncate
\* Shortfuse.truncate, lines 525-529: "truncate" is the call without file_info,
\* "ftruncate" the call with the handle in file_info
ActTruncate(t) ==
    /\ pc[t] = "act"
    /\ local[t].op \in {"truncate", "ftruncate"}
    /\ LET n == local[t].node
       IN  IF ~IsFileNode(n)
           THEN /\ Finish(t, "EISDIR", 0, n, EmptyDict)
                /\ UNCHANGED <<nodeVars, attrVars, handleVars, lockVars, clock, content, histVars>>
           ELSE IF local[t].op = "truncate"
           THEN OpenEnter(t, n)
           ELSE /\ Goto(t, "tr_desc")
                /\ UNCHANGED <<nodeVars, attrVars, handleVars, lockVars, clock, content,
                               local, histVars>>

\* The call goes on after descriptor.truncate has returned: lines 532-533
TruncateDone(t) ==
    IF local[t].op = "truncate"
    THEN /\ Goto(t, "tr_close")
         /\ UNCHANGED local
    ELSE Finish(t, "OK", 0, local[t].node, EmptyDict)

\* Shortfuse.truncate, lines 530-531: node.get_descriptor(fh).truncate(length),
\* MemoryFileDescriptor.truncate or CachedFileDescriptor.truncate
TruncateDescriptor(t) ==
    /\ pc[t] = "tr_desc"
    /\ LET n == local[t].node
           length == local[t].length
       IN  IF BadHandle(n, local[t].fh)
           THEN /\ Finish(t, "EBADF", 0, n, EmptyDict)
                /\ UNCHANGED <<content, descriptor>>
           ELSE IF IsCached(n)
           THEN \/ /\ content' = [content EXCEPT ![n] = Resize(@, length)]
                   /\ descriptor' =
                        [descriptor EXCEPT ![n].attributes = SetItem(@, "st_size", length)]
                   /\ TruncateDone(t)
                \/ \* the file object's truncate raises: FuseOSError(EIO)
                   /\ Finish(t, "EIO", 0, n, EmptyDict)
                   /\ UNCHANGED <<content, descriptor>>
           ELSE IF length = Len(descriptor[n].content)
           THEN /\ TruncateDone(t)
                /\ UNCHANGED <<content, descriptor>>
           ELSE /\ descriptor' =
                     [descriptor EXCEPT
                        ![n].content = Resize(@, length),
                        ![n].attributes =
                            SetItem(SetItem(SetItem(@, "st_size",
                                                    Len(Resize(descriptor[n].content,
                                                               length))),
                                            "st_mtime", IntTime(clock)),
                                    "st_atime", IntTime(clock))]
                /\ TruncateDone(t)
                /\ UNCHANGED content
    /\ UNCHANGED <<nodeVars, attrVars, node_descriptors, next_node_descriptor, lockVars,
                   clock, histVars>>

\* Shortfuse.truncate, lines 532-533: node.close(fh)
TruncateClose(t) ==
    /\ pc[t] = "tr_close"
    /\ CloseEnter(t, local[t].node)

\* ------------------------------------------------------------- read, write, flush, fsync, readdir
Min(a, b) == IF a <= b THEN a ELSE b
Max(a, b) == IF a >= b THEN a ELSE b

\* A read that starts at the first byte whatever the offset
ReadFromStart(c, size, offset) == SubSeq(c, 1, Min(Len(c), size))

\* content[start:end] of MemoryFileDescriptor.read(size, offset)
ReadAt(c, size, offset) == SubSeq(c, Min(Len(c), offset) + 1, Min(Len(c), size + offset))

\* A write that inserts its data and overwrites nothing
WriteInsert(c, data, offset) == SubSeq(c, 1, offset) \o data \o SubSeq(c, offset + 1, Len(c))

\* content[:offset] + data + content[offset+len(data):]
WriteAt(c, data, offset) ==
    SubSeq(c, 1, offset) \o data \o SubSeq(c, offset + Len(data) + 1, Len(c))

\* A write that may not start at the end of the content either
SeekAtEnd(c, offset) == Len(c) <= offset

\* MemoryFileDescriptor.write, line 121: `if len(self._content) < offset`
SeekPastEnd(c, offset) == Len(c) < offset

\* The names in descending order
NameOrderDown == <<"b", "a">>

\* The names in ascending order
NameOrder == <<"a", "b">>

\* DirectoryDescriptor.get_children_names() with
\* MemoryDirectoryDescriptor._get_children(): the children map is read as it is
\* now, without its lock
get_children_names(d) ==
    <<".", "..">> \o
    SelectSeq(NameOrder,
              LAMBDA x : \E y \in Names : children[d][y] # NoNode /\ name[children[d][y]] = x)

FileVerbs == {"read", "write", "flush", "fsync"}

\* Shortfuse.read / write / flush / fsync / readdir: the variant check,
\* node.get_descriptor(fh) and the descriptor's method (MemoryFileDescriptor or
\* CachedFileDescriptor, whose file object may fail).  The lookup and the method
\* are one step: the kernel releases a handle after the calls on it have
\* returned, so the descriptor looked up is the node's when its method runs.
ActDescriptor(t) ==
    /\ pc[t] = "act"
    /\ local[t].op \in FileVerbs \cup {"readdir"}
    /\ LET n == local[t].node
           op == local[t].op
           data == local[t].data
           offset == local[t].offset
           Same == UNCHANGED <<content, descriptor>>
       IN  IF op \in FileVerbs /\ ~IsFileNode(n)
           THEN Finish(t, "EISDIR", 0, n, EmptyDict) /\ Same
           ELSE IF op = "readdir" /\ ~IsDirectoryNode(n)
           THEN Finish(t, "ENOTDIR", 0, n, EmptyDict) /\ Same
           ELSE IF BadHandle(n, local[t].fh)
           THEN Finish(t, "EBADF", 0, n, EmptyDict) /\ Same
           ELSE IF op = "readdir"
           THEN Finish(t, "OK", get_children_names(n), n, EmptyDict) /\ Same
           ELSE IF op = "fsync"
           THEN Finish(t, "OK", 0, n, EmptyDict) /\ Same
           ELSE IF IsCached(n)
           THEN \/ Finish(t, "EIO", 0, n, EmptyDict) /\ Same
                \/ /\ op = "read"
                   /\ Finish(t, "OK", ReadAt(content[n], local[t].length, offset), n, EmptyDict)
                   /\ Same
                \/ /\ op = "flush"
                   /\ Finish(t, "OK", 0, n, EmptyDict)
                   /\ Same
                \/ /\ op = "write"
                   /\ content' = [content EXCEPT ![n] =
                                    WriteAt(Resize(@, Max(Len(@), offset)), data, offset)]
                   /\ descriptor' =
                        [descriptor EXCEPT ![n].attributes =
                            SetItem(@, "st_size", Max(@["st_size"], offset + Len(data)))]
                   /\ Finish(t, "OK", Len(data), n, EmptyDict)
           ELSE IF op = "read"
           THEN /\ Finish(t, "OK", ReadAt(descriptor[n].content, local[t].length, offset),
                          n, EmptyDict)
                /\ Same
           ELSE IF op = "flush"
           THEN Finish(t, "OK", 0, n, EmptyDict) /\ Same
           ELSE IF SeekPastEnd(descriptor[n].content, offset)
           THEN Finish(t, "ESPIPE", 0, n, EmptyDict) /\ Same
           ELSE /\ descriptor' =
                     [descriptor EXCEPT
                        ![n].content = WriteAt(@, data, offset),
                        ![n].attributes =
                            SetItem(SetItem(SetItem(@, "st_size",
                                                    Len(WriteAt(descriptor[n].content,
                                                                data, offset))),
                                            "st_mtime", IntTime(clock)),
                                    "st_atime", IntTime(clock))]
                /\ Finish(t, "OK", Len(data), n, EmptyDict)
                /\ UNCHANGED content
    /\ UNCHANGED <<nodeVars, attrVars, node_descriptors, next_node_descriptor, lockVars,
                   clock, histVars>>

\* ------------------------------------------------------------- create, mkdir
\* MemoryDirectoryNode._create_node, lines 182-197: the node object, not yet a child
NewNodeAttributes(d, type, mode, nlink) ==
    NodeAttributesInit(
        [mode |-> BitOr(type, mode), size |-> 0, nlink |-> nlink,
         uid |-> attributes[d]["st_uid"], gid |-> attributes[d]["st_gid"],
         atime |-> clock, mtime |-> clock, ctime |-> clock])

\* Shortfuse.create / Shortfuse.mkdir, MemoryDirectoryNode._create_node and
\* DirectoryNode.add_child lines 582-583 with DirectoryNode._add_child: build the
\* node object, enter the children lock, fail with EEXIST or insert.  The
\* constructor reads the directory's owner and the clock only.
AddInsert(t) ==
    /\ pc[t] = "act"
    /\ local[t].op \in CreateVerbs
    /\ LET d == local[t].node
           n == CHOOSE x \in FreeNodes : \A y \in FreeNodes : x <= y
           x == Basename(local[t].path)
           isdir == local[t].op = "mkdir"
       IN  IF ~IsDirectoryNode(d)
           THEN /\ Finish(t, "ENOTDIR", 0, d, EmptyDict)
                /\ UNCHANGED <<nodeVars, attrVars, children_locks>>
           ELSE /\ CanEnter(children_locks, d, t)
                /\ IF children[d][x] # NoNode
                   THEN /\ Finish(t, "EEXIST", 0, d, EmptyDict)
                        /\ UNCHANGED <<nodeVars, attrVars, children_locks>>
                   ELSE /\ FreeNodes # {}
                        /\ kind' = [kind EXCEPT ![n] = IF isdir THEN "dir" ELSE "file"]
                        /\ parent' = [parent EXCEPT ![n] = d]
                        /\ name' = [name EXCEPT ![n] = x]
                        /\ attributes' = [attributes EXCEPT ![n] =
                              NewNodeAttributes(d, IF isdir THEN S_IFDIR ELSE S_IFREG,
                                                local[t].mode, IF isdir THEN 2 ELSE 1)]
                        /\ fs_attributes' = [fs_attributes EXCEPT ![n] = fs_attributes[d]]
                        /\ extra_attributes' =
                              [extra_attributes EXCEPT ![n] = NodeExtraAttributesInit]
                        /\ children' = [children EXCEPT ![d][x] = n]
                        /\ children_locks' = [children_locks EXCEPT ![d] = t]
                        /\ local' = [local EXCEPT ![t].new = n]
                        /\ Goto(t, "add_get1")
    /\ UNCHANGED <<target, handleVars, descriptors_lock, clock, content, histVars>>

\* self.get_attributes(), the receiver of a setter: enter the node's lock,
\* take the object, leave the lock
GetRef(t, from, to) ==
    /\ pc[t] = from
    /\ CanEnter(descriptors_lock, RefNode(t), t)
    /\ local' = [local EXCEPT ![t].ref = get_attributes(RefNode(t))]
    /\ Goto(t, to)
    /\ UNCHANGED <<nodeVars, attrVars, handleVars, lockVars, clock, content, histVars>>

\* .set_nlink(self.attributes.get_nlink() + delta): the count is read from the
\* object in node.attributes and written to the object get_attributes() gave
SetNlink(t, from, to, delta) ==
    /\ pc[t] = from
    /\ SetAttribute(RefNode(t), local[t].ref, "st_nlink",
                    attributes[RefNode(t)]["st_nlink"] + delta)
    /\ Goto(t, to)
    /\ UNCHANGED <<nodeVars, fs_attributes, extra_attributes, node_descriptors,
                   next_node_descriptor, lockVars, clock, content, local, histVars>>

\* .set_access_time(int(time.time())) / .set_modified_time(int(time.time()))
Touch(t, from, to, key) ==
    /\ pc[t] = from
    /\ SetAttribute(RefNode(t), local[t].ref, key, IntTime(clock))
    /\ Goto(t, to)
    /\ UNCHANGED <<nodeVars, fs_attributes, extra_attributes, node_descriptors,
                   next_node_descriptor, lockVars, clock, content, local, histVars>>

\* DirectoryNode.add_child, line 586, the end of the with block and the return
\* to the caller: mkdir is done, create goes on to file_node.open(), rename to
\* its remove_child
AddEnd(t) ==
    /\ pc[t] = "add_mtime"
    /\ LET d == local[t].node
       IN  /\ SetAttribute(d, local[t].ref, "st_mtime", IntTime(clock))
           /\ children_locks' = [children_locks EXCEPT ![d] = 0]
           /\ IF local[t].op = "mkdir"
              THEN Finish(t, "OK", 0, local[t].new, EmptyDict)
              ELSE IF local[t].op = "rename"
              THEN \* back in MemoryNode.rename, line 101: self.parent.remove_child
                   /\ local' = [local EXCEPT ![t].ref = "none", ![t].node = local[t].new]
                   /\ Goto(t, "rn_remove")
              ELSE /\ local' = [local EXCEPT ![t].ref = "none"]
                   /\ Goto(t, "open_new")
    /\ UNCHANGED <<nodeVars, fs_attributes, extra_attributes, node_descriptors,
                   next_node_descriptor, descriptors_lock, clock, content, histVars>>

\* Shortfuse.create, line 106: file_node.open()
OpenNew(t) ==
    /\ pc[t] = "open_new"
    /\ OpenEnter(t, local[t].new)

\* DirectoryNode.add_child, lines 584-586: each of the three setters takes its
\* receiver with get_attributes() first
add_child(t) ==
    \/ GetRef(t, "add_get1", "add_nlink")
    \/ SetNlink(t, "add_nlink", "add_get2", 1)
    \/ GetRef(t, "add_get2", "add_atime")
    \/ Touch(t, "add_atime", "add_get3", "st_atime")
    \/ GetRef(t, "add_get3", "add_mtime")
    \/ AddEnd(t)

\* ------------------------------------------------------------- unlink, rmdir
\* Shortfuse.unlink / Shortfuse.rmdir, MemoryNode.delete and
\* DirectoryNode.remove_child lines 614-616
ActDelete(t) ==
    /\ pc[t] = "act"
    /\ local[t].op \in {"unlink", "rmdir"}
    /\ LET n == local[t].node
           d == parent[n]
       IN  IF local[t].op = "unlink" /\ ~IsFileNode(n)
           THEN /\ Finish(t, "EISDIR", 0, n, EmptyDict)
                /\ UNCHANGED children_locks
           ELSE IF local[t].op = "rmdir" /\ ~IsDirectoryNode(n)
           THEN /\ Finish(t, "ENOTDIR", 0, n, EmptyDict)
                /\ UNCHANGED children_locks
           ELSE IF d = NoNode
           THEN \* the root has no parent: None.remove_child
                /\ Finish(t, "AttributeError", 0, n, EmptyDict)
                /\ UNCHANGED children_locks
           ELSE /\ CanEnter(children_locks, d, t)
                /\ IF children[d][name[n]] = NoNode
                   THEN /\ Finish(t, "ENOENT", 0, n, EmptyDict)
                        /\ UNCHANGED children_locks
                   ELSE /\ children_locks' = [children_locks EXCEPT ![d] = t]
                        /\ Goto(t, "rm_get1")
                        /\ UNCHANGED local
    /\ UNCHANGED <<nodeVars, attrVars, handleVars, descriptors_lock, clock, content, histVars>>

\* DirectoryNode.remove_child, lines 619-620, the end of the with block and the
\* adapter's return
RemoveEnd(t) ==
    /\ pc[t] = "rm_mtime"
    /\ LET n == local[t].node
           d == parent[n]
       IN  /\ SetAttribute(d, local[t].ref, "st_mtime", IntTime(clock))
           /\ children' = [children EXCEPT ![d][name[n]] = NoNode]
           /\ children_locks' = [children_locks EXCEPT ![d] = 0]
           /\ Finish(t, "OK", 0, n, EmptyDict)
    /\ UNCHANGED <<kind, parent, name, target, fs_attributes, extra_attributes,
                   node_descriptors, next_node_descriptor, descriptors_lock, clock, content,
                   histVars>>

\* DirectoryNode.remove_child, lines 617-620
remove_child(t) ==
    \/ GetRef(t, "rm_get1", "rm_nlink")
    \/ SetNlink(t, "rm_nlink", "rm_get2", -1)
    \/ GetRef(t, "rm_get2", "rm_atime")
    \/ Touch(t, "rm_atime", "rm_get3", "st_atime")
    \/ GetRef(t, "rm_get3", "rm_mtime")
    \/ RemoveEnd(t)

\* ------------------------------------------------------------- rename
\* Node._get_root()
RECURSIVE get_root(_)
get_root(n) == IF parent[n] = NoNode THEN n ELSE get_root(parent[n])

\* Shortfuse.rename and MemoryNode.rename, lines 96-97: the node is resolved,
\* the new path is split and the walk to its directory starts at the root.
\* From here on local.new is the node renamed and local.node the walk's place.
ActRename(t) ==
    /\ pc[t] = "act"
    /\ local[t].op = "rename"
    /\ LET todo == Dirname(local[t].new_path)
       IN  /\ local' = [local EXCEPT ![t].new = local[t].node,
                                     ![t].node = get_root(local[t].node),
                                     ![t].todo = todo]
           /\ Goto(t, IF todo = <<>> THEN "rn_check" ELSE "rn_resolve")
    /\ UNCHANGED <<nodeVars, attrVars, handleVars, lockVars, clock, content, histVars>>

\* MemoryNode.rename, line 97: one turn of the loop of get_child(basename)
RenameResolve(t) ==
    /\ pc[t] = "rn_resolve"
    /\ LET d == local[t].node
           x == Head(local[t].todo)
           rest == Tail(local[t].todo)
       IN  IF ~IsDirectoryNode(d)
           THEN Finish(t, "ENOENT", 0, local[t].new, EmptyDict)
           ELSE /\ CanEnter(children_locks, d, t)
                /\ IF get_direct_child(d, x) = NoNode
                   THEN Finish(t, "ENOENT", 0, local[t].new, EmptyDict)
                   ELSE /\ local' = [local EXCEPT ![t].node = get_direct_child(d, x),
                                                  ![t].todo = rest]
                        /\ Goto(t, IF rest = <<>> THEN "rn_check" ELSE "rn_resolve")
    /\ UNCHANGED <<nodeVars, attrVars, handleVars, lockVars, clock, content, histVars>>

\* MemoryNode.rename, lines 98-100, and DirectoryNode.add_child, line 582: the
\* directory's type is checked and its children lock entered
RenameCheck(t) ==
    /\ pc[t] = "rn_check"
    /\ LET d == local[t].node
       IN  IF ~IsDirectoryNode(d)
           THEN /\ Finish(t, "ENOTDIR", 0, local[t].new, EmptyDict)
                /\ UNCHANGED children_locks
           ELSE /\ CanEnter(children_locks, d, t)
                /\ children_locks' = [children_locks EXCEPT ![d] = t]
                /\ Goto(t, "rn_add")
                /\ UNCHANGED local
    /\ UNCHANGED <<nodeVars, attrVars, handleVars, descriptors_lock, clock, content, histVars>>

\* DirectoryNode._add_child(node), lines 598-602, called with the lock held:
\* the node goes in under node.name, the name it has had since it was built
RenameAdd(t) ==
    /\ pc[t] = "rn_add"
    /\ LET d == local[t].node
           n == local[t].new
       IN  /\ CanEnter(children_locks, d, t)
           /\ IF children[d][name[n]] # NoNode
              THEN /\ Finish(t, "EEXIST", 0, n, EmptyDict)
                   /\ children_locks' = [children_locks EXCEPT ![d] = 0]
                   /\ UNCHANGED children
              ELSE /\ children' = [children EXCEPT ![d][name[n]] = n]
                   /\ Goto(t, "add_get1")
                   /\ UNCHANGED <<children_locks, local>>
    /\ UNCHANGED <<kind, parent, name, target, attrVars, handleVars, descriptors_lock,
                   clock, content, histVars>>

\* MemoryNode.rename, line 101, and DirectoryNode.remove_child, lines 614-616:
\* self.parent is the directory the node was built in
RenameRemove(t) ==
    /\ pc[t] = "rn_remove"
    /\ LET n == local[t].node
           d == parent[n]
       IN  IF d = NoNode
           THEN /\ Finish(t, "AttributeError", 0, n, EmptyDict)
                /\ UNCHANGED children_locks
           ELSE /\ CanEnter(children_locks, d, t)
                /\ IF children[d][name[n]] = NoNode
                   THEN /\ Finish(t, "ENOENT", 0, n, EmptyDict)
                        /\ UNCHANGED children_locks
                   ELSE /\ children_locks' = [children_locks EXCEPT ![d] = t]
                        /\ Goto(t, "rm_get1")
                        /\ UNCHANGED local
    /\ UNCHANGED <<nodeVars, attrVars, handleVars, descriptors_lock, clock, content, histVars>>

\* MemoryNode.rename
rename(t) ==
    \/ ActRename(t)
    \/ RenameResolve(t)
    \/ RenameCheck(t)
    \/ RenameAdd(t)
    \/ RenameRemove(t)

\* ------------------------------------------------------------- replace_child
\* DirectoryNode.replace_child(new_child), lines 533-537, called on the
\* directory local.node with the node local.new
ReplaceEnter(t) ==
    /\ pc[t] = "act"
    /\ local[t].op = "replace_child"
    /\ LET d == local[t].node
           n == local[t].new
       IN  /\ CanEnter(children_locks, d, t)
           /\ IF children[d][name[n]] = NoNode
              THEN /\ Finish(t, "ENOENT", 0, d, EmptyDict)
                   /\ UNCHANGED <<children, children_locks>>
              ELSE /\ children' = [children EXCEPT ![d][name[n]] = n]
                   /\ children_locks' = [children_locks EXCEPT ![d] = t]
                   /\ Goto(t, "rp_atime")
                   /\ UNCHANGED local
    /\ UNCHANGED <<kind, parent, name, target, attrVars, handleVars, descriptors_lock,
                   clock, content, histVars>>

\* DirectoryNode.replace_child, lines 538-539: both times are written to the
\* object in self.attributes, whether the directory is open or not
ReplaceTouch(t) ==
    /\ pc[t] \in {"rp_atime", "rp_mtime"}
    /\ LET d == local[t].node
       IN  IF pc[t] = "rp_atime"
           THEN /\ SetAttribute(d, "node", "st_atime", IntTime(clock))
                /\ Goto(t, "rp_mtime")
                /\ UNCHANGED <<local, children_locks>>
           ELSE /\ SetAttribute(d, "node", "st_mtime", IntTime(clock))
                /\ children_locks' = [children_locks EXCEPT ![d] = 0]
                /\ Finish(t, "OK", 0, d, EmptyDict)
    /\ UNCHANGED <<nodeVars, fs_attributes, extra_attributes, node_descriptors,
                   next_node_descriptor, descriptors_lock, clock, content, histVars>>

\* ------------------------------------------------------------- attributes
\* Shortfuse.chmod / chown / utimens up to the receiver of the first setter
ActSetattr(t) ==
    /\ local[t].op \in {"chmod", "chown", "utimens"}
    /\ GetRef(t, "act", "set_1")

\* A set_permissions that stores the mode as it is passed
SetModeRaw(n, r, mode) == SetAttribute(n, r, "st_mode", mode)

\* MemoryNodeAttributes.set_permissions(mode) on the object r of node n
set_permissions(n, r, mode) ==
    SetAttribute(n, r, "st_mode", BitOr(S_IMODE(mode), S_IFMT(ObjectMode(n, r))))

\* The first setter of chmod / chown / utimens
Set1(t) ==
    /\ pc[t] = "set_1"
    /\ LET n == local[t].node
           r == local[t].ref
       IN  \/ /\ local[t].op = "chmod"
              /\ set_permissions(n, r, local[t].mode)
              /\ Finish(t, "OK", 0, n, EmptyDict)
           \/ /\ local[t].op = "chown"
              /\ SetAttribute(n, r, "st_uid", local[t].uid)
              /\ Goto(t, "set_2")
              /\ UNCHANGED local
           \/ /\ local[t].op = "utimens"
              /\ SetAttribute(n, r, "st_atime", local[t].atime)
              /\ Goto(t, "set_2")
              /\ UNCHANGED local
    /\ mutated' = [mutated EXCEPT ![local[t].node] = TRUE]
    /\ UNCHANGED <<nodeVars, fs_attributes, extra_attributes, node_descriptors,
                   next_node_descriptor, lockVars, clock, content>>

\* The second setter of chown / utimens (utimens passes times[0] again)
Set2(t) ==
    /\ pc[t] = "set_2"
    /\ LET n == local[t].node
           r == local[t].ref
       IN  \/ /\ local[t].op = "chown"
              /\ SetAttribute(n, r, "st_gid", local[t].gid)
           \/ /\ local[t].op = "utimens"
              /\ SetAttribute(n, r, "st_mtime", local[t].atime)
    /\ Finish(t, "OK", 0, local[t].node, EmptyDict)
    /\ mutated' = [mutated EXCEPT ![local[t].node] = TRUE]
    /\ UNCHANGED <<nodeVars, fs_attributes, extra_attributes, node_descriptors,
                   next_node_descriptor, lockVars, clock, content>>

\* Shortfuse.getattr without a file_info
ActGetattr(t) ==
    /\ pc[t] = "act"
    /\ local[t].op = "getattr"
    /\ CanEnter(descriptors_lock, local[t].node, t)
    /\ Finish(t, "OK", 0, local[t].node, get_all(local[t].node, get_attributes(local[t].node)))
    /\ UNCHANGED <<nodeVars, attrVars, handleVars, lockVars, clock, content, histVars>>

\* Shortfuse.getattr with a file_info, lines 207-211: get_descriptor(fh) raises
\* EBADF for an id that is not open and returns the node's descriptor
\* otherwise; the descriptor classes define no get_attributes, so the call on
\* it raises AttributeError
ActGetattrHandle(t) ==
    /\ pc[t] = "act"
    /\ local[t].op = "getattr_fh"
    /\ LET n == local[t].node
       IN  IF BadHandle(n, local[t].fh)
           THEN Finish(t, "EBADF", 0, n, EmptyDict)
           ELSE Finish(t, "AttributeError", 0, n, EmptyDict)
    /\ UNCHANGED <<nodeVars, attrVars, handleVars, lockVars, clock, content, histVars>>

\* ------------------------------------------------------------- extra attributes
\* MemoryNodeExtraAttributes()
MemoryNodeExtraAttributesInit == [cls |-> "MemoryNodeExtraAttributes", attrs |-> EmptyDict]

\* del dict[key]
DelItem(d, key) == [k \in DOMAIN d \ {key} |-> d[k]]

\* Shortfuse.setxattr / getxattr / removexattr: node.get_extra_attributes()
\* enters the node's lock and gives the descriptor's object while the node is
\* open, the node's own otherwise; then the method of the object's class runs.
\* NodeExtraAttributes raises EOPNOTSUPP from set_attribute and
\* remove_attribute, MemoryNodeExtraAttributes overrides both.
ActXattr(t) ==
    /\ pc[t] = "act"
    /\ local[t].op \in {"setxattr", "getxattr", "removexattr"}
    /\ CanEnter(descriptors_lock, local[t].node, t)
    /\ LET n == local[t].node
           op == local[t].op
           k == local[t].attr
           r == get_attributes(n)
           x == IF r = "desc" THEN descriptor[n].extra_attributes ELSE extra_attributes[n]
           Put(a) ==
               /\ extra_attributes' =
                    IF r = "node" THEN [extra_attributes EXCEPT ![n].attrs = a]
                    ELSE extra_attributes
               /\ descriptor' =
                    IF r = "desc" THEN [descriptor EXCEPT ![n].extra_attributes.attrs = a]
                    ELSE descriptor
           Same == UNCHANGED <<extra_attributes, descriptor>>
       IN  IF op = "getxattr"
           THEN /\ Finish(t, "OK", IF k \in DOMAIN x.attrs THEN x.attrs[k] ELSE "",
                          n, EmptyDict)
                /\ Same
           ELSE IF x.cls = "NodeExtraAttributes"
           THEN Finish(t, "EOPNOTSUPP", 0, n, EmptyDict) /\ Same
           ELSE IF op = "setxattr"
           THEN Finish(t, "OK", 0, n, EmptyDict) /\ Put(SetItem(x.attrs, k, local[t].value))
           ELSE IF k \notin DOMAIN x.attrs
           THEN Finish(t, "ENOENT", 0, n, EmptyDict) /\ Same
           ELSE Finish(t, "OK", 0, n, EmptyDict) /\ Put(DelItem(x.attrs, k))
    /\ UNCHANGED <<nodeVars, attributes, fs_attributes, node_descriptors,
                   next_node_descriptor, lockVars, clock, content, histVars>>

\* ------------------------------------------------------------- symlink
\* A symlink that fails as well, after it has counted a link on the root the way
\* the constructor of LinkNode counts one on its target
SymlinkCounts(t) ==
    /\ pc[t] = "idle"
    /\ res' = [op |-> "symlink", err |-> "ENOSYS", val |-> 0, node |-> NoNode,
               attrs |-> EmptyDict]
    /\ attributes' = [attributes EXCEPT ![Root]["st_nlink"] = @ + 1]
    /\ UNCHANGED <<nodeVars, fs_attributes, extra_attributes, handleVars, lockVars, clock,
                   content, histVars, pc, local>>

\* Shortfuse.symlink(target, source): the body is the one raise, no argument is
\* read and no node is looked up
symlink(t) ==
    /\ pc[t] = "idle"
    /\ \E to \in Paths, source \in Paths \ {<<>>} :
          res' = [op |-> "symlink", err |-> "ENOSYS", val |-> 0, node |-> NoNode,
                  attrs |-> EmptyDict]
    /\ UNCHANGED <<nodeVars, attrVars, handleVars, lockVars, clock, content, histVars,
                   pc, local>>

\* MemoryFileNode(parent, name, attributes, fs_attributes, extra_attributes),
\* called by the code that owns the tree to have a node for replace_child: the
\* constructor sets the fields and puts the node in no children map
MemoryFileNodeInit(t) ==
    /\ pc[t] = "idle"
    /\ FreeNodes # {}
    /\ \E x \in Names :
          LET n == CHOOSE y \in FreeNodes : \A z \in FreeNodes : y <= z
          IN  /\ kind' = [kind EXCEPT ![n] = "file"]
              /\ parent' = [parent EXCEPT ![n] = Root]
              /\ name' = [name EXCEPT ![n] = x]
              /\ attributes' =
                    [attributes EXCEPT ![n] = NewNodeAttributes(Root, S_IFREG, 420, 1)]
              /\ fs_attributes' = [fs_attributes EXCEPT ![n] = fs_attributes[Root]]
              /\ extra_attributes' = [extra_attributes EXCEPT ![n] = NodeExtraAttributesInit]
              /\ res' = [op |-> "MemoryFileNode", err |-> "OK", val |-> 0, node |-> n,
                         attrs |-> EmptyDict]
    /\ UNCHANGED <<children, target, handleVars, lockVars, clock, content, histVars, pc,
                   local>>

\* time.time() moves on by a second between two calls
Tick ==
    /\ \A t \in Threads : pc[t] = "idle"
    /\ clock < 3
    /\ clock' = clock + TicksPerSecond
    /\ res' = NoResult
    /\ UNCHANGED <<nodeVars, attrVars, handleVars, lockVars, content, histVars, pc, local>>

\* ------------------------------------------------------------- LinkNode
\* The attributes the owner gives a link: 0o120777, one link, the root's owner
LinkAttributes ==
    NodeAttributesInit(
        [mode |-> BitOr(40960, 511), size |-> 0, nlink |-> 1, uid |-> 0, gid |-> 0,
         atime |-> 1, mtime |-> 1, ctime |-> 1])

\* LinkNode(parent, name, target, attributes, fs_attributes, extra_attributes),
\* called by the code that owns the tree: Node.__init__ sets the fields, then
\* the count in target.attributes, the node's own object, is read and written
\* one higher.  The constructor enters no lock and puts the link in no
\* children map.
LinkNodeInit(t) ==
    /\ pc[t] = "idle"
    /\ FreeNodes # {}
    /\ \E d \in {n \in NodeIds : IsDirectoryNode(n)}, x \in Names,
          g \in {n \in NodeIds : kind[n] \in {"dir", "file"}} :
          LET l == CHOOSE y \in FreeNodes : \A z \in FreeNodes : y <= z
          IN  /\ kind' = [kind EXCEPT ![l] = "link"]
              /\ parent' = [parent EXCEPT ![l] = d]
              /\ name' = [name EXCEPT ![l] = x]
              /\ target' = [target EXCEPT ![l] = g]
              /\ attributes' =
                    [attributes EXCEPT ![l] = LinkAttributes,
                                       ![g] = SetItem(@, "st_nlink", @["st_nlink"] + 1)]
              /\ fs_attributes' = [fs_attributes EXCEPT ![l] = fs_attributes[d]]
              /\ extra_attributes' = [extra_attributes EXCEPT ![l] = NodeExtraAttributesInit]
              /\ res' = [op |-> "LinkNode", err |-> "OK", val |-> 0, node |-> l,
                         attrs |-> EmptyDict]
    /\ UNCHANGED <<children, handleVars, lockVars, clock, content, histVars, pc, local>>

\* ------------------------------------------------------------- the system
TreeStep(t) ==
    \/ TreeCall(t)
    \/ Resolve(t)
    \/ ActOpen(t)
    \/ OpenAdd(t)
    \/ OpenReturn(t)
    \/ ActClose(t)
    \/ CloseEnd(t)
    \/ AddInsert(t)
    \/ add_child(t)
    \/ OpenNew(t)
    \/ ActDelete(t)
    \/ remove_child(t)

Next == \E t \in Threads : TreeStep(t)

\* The tree: create, mkdir, unlink, rmdir, opendir and releasedir, from the
\* file system as MemoryFileSystem() builds it
Spec == Init /\ [][Next]_vars

\* The calls the kernel makes on the entries of a directory it holds open
EntryCall(t) ==
    \/ \E p \in Paths \ {<<>>} : \E v \in {"unlink", "rmdir"} :
          Start(t, v, [NoLocal EXCEPT !.path = p])
    \/ \E p \in Paths \ {<<>>}, m \in CreateModes :
          Start(t, "create", [NoLocal EXCEPT !.path = p, !.mode = m])
    \/ \E p \in Paths \ {<<>>}, m \in MkdirModes :
          Start(t, "mkdir", [NoLocal EXCEPT !.path = p, !.mode = m])

EntryStep(t) ==
    \/ EntryCall(t)
    \/ Resolve(t)
    \/ OpenAdd(t)
    \/ OpenReturn(t)
    \/ AddInsert(t)
    \/ add_child(t)
    \/ OpenNew(t)
    \/ ActDelete(t)
    \/ remove_child(t)

EntryNext == \E t \in Threads : EntryStep(t)

\* The file system after opendir("/") has returned its handle
OpenDirInit ==
    /\ kind = [n \in NodeIds |-> IF n = Root THEN "dir" ELSE "free"]
    /\ parent = [n \in NodeIds |-> NoNode]
    /\ name = [n \in NodeIds |-> IF n = Root THEN "/" ELSE ""]
    /\ children = [n \in NodeIds |-> NoChildren]
    /\ target = [n \in NodeIds |-> NoNode]
    /\ attributes = [n \in NodeIds |-> IF n = Root THEN RootAttributes ELSE EmptyDict]
    /\ fs_attributes = [n \in NodeIds |-> IF n = Root THEN RootFSAttributes ELSE EmptyDict]
    /\ extra_attributes = [n \in NodeIds |-> NodeExtraAttributesInit]
    /\ content = [n \in NodeIds |-> <<>>]
    /\ descriptor = [n \in NodeIds |->
                       IF n = Root
                       THEN [live |-> TRUE, serial |-> 1,
                             attributes |-> AttributesCopy(RootAttributes),
                             fs_attributes |-> FSAttributesCopy(RootFSAttributes),
                             extra_attributes |-> ExtraAttributesCopy(NodeExtraAttributesInit)]
                       ELSE NoDescriptor]
    /\ node_descriptors = [n \in NodeIds |-> IF n = Root THEN {1} ELSE {}]
    /\ next_node_descriptor = [n \in NodeIds |-> IF n = Root THEN 2 ELSE 1]
    /\ descriptors_lock = [n \in NodeIds |-> 0]
    /\ children_locks = [n \in NodeIds |-> 0]
    /\ clock = 1
    /\ pc = [t \in Threads |-> "idle"]
    /\ local = [t \in Threads |-> NoLocal]
    /\ res = NoResult
    /\ mutated = [n \in NodeIds |-> FALSE]

\* Entries: create, mkdir, unlink and rmdir under a root directory that stays
\* open
OpenDirSpec == OpenDirInit /\ [][EntryNext]_vars

HandleStep(t) ==
    \/ HandleCall(t)
    \/ Resolve(t)
    \/ ActOpen(t)
    \/ OpenAdd(t)
    \/ OpenReturn(t)
    \/ ActClose(t)
    \/ CloseEnd(t)

HandleNext == \E t \in Threads : HandleStep(t)

\* The one file of HandleInit
FileA == 2

\* The file system after create("/a", 0o100644) at time 0.5 has returned its
\* handle
FileAttributes ==
    NodeAttributesInit(
        [mode |-> BitOr(S_IFREG, 33188), size |-> 0, nlink |-> 1, uid |-> 0, gid |-> 0,
         atime |-> 1, mtime |-> 1, ctime |-> 1])

HandleInit ==
    /\ kind = [n \in NodeIds |-> IF n = Root THEN "dir" ELSE IF n = FileA THEN "file" ELSE "free"]
    /\ parent = [n \in NodeIds |-> IF n = FileA THEN Root ELSE NoNode]
    /\ name = [n \in NodeIds |-> IF n = Root THEN "/" ELSE IF n = FileA THEN "a" ELSE ""]
    /\ children = [n \in NodeIds |->
                     IF n = Root THEN [NoChildren EXCEPT !["a"] = FileA] ELSE NoChildren]
    /\ target = [n \in NodeIds |-> NoNode]
    /\ attributes = [n \in NodeIds |->
                       IF n = Root
                       THEN [RootAttributes EXCEPT !["st_nlink"] = 3,
                                                   !["st_atime"] = IntTime(1),
                                                   !["st_mtime"] = IntTime(1)]
                       ELSE IF n = FileA THEN FileAttributes
                       ELSE EmptyDict]
    /\ fs_attributes = [n \in NodeIds |->
                          IF n \in {Root, FileA} THEN RootFSAttributes ELSE EmptyDict]
    /\ extra_attributes = [n \in NodeIds |-> NodeExtraAttributesInit]
    /\ content = [n \in NodeIds |-> <<>>]
    /\ descriptor = [n \in NodeIds |->
                       IF n = FileA
                       THEN [live |-> TRUE, serial |-> 1, content |-> <<>>,
                             attributes |-> AttributesCopy(FileAttributes),
                             fs_attributes |-> FSAttributesCopy(RootFSAttributes),
                             extra_attributes |-> ExtraAttributesCopy(NodeExtraAttributesInit)]
                       ELSE NoDescriptor]
    /\ node_descriptors = [n \in NodeIds |-> IF n = FileA THEN {1} ELSE {}]
    /\ next_node_descriptor = [n \in NodeIds |-> IF n = FileA THEN 2 ELSE 1]
    /\ descriptors_lock = [n \in NodeIds |-> 0]
    /\ children_locks = [n \in NodeIds |-> 0]
    /\ clock = 1
    /\ pc = [t \in Threads |-> "idle"]
    /\ local = [t \in Threads |-> NoLocal]
    /\ res = NoResult
    /\ mutated = [n \in NodeIds |-> FALSE]

\* Handles: open, opendir, release and releasedir on a root directory that
\* holds one open file
HandleSpec == HandleInit /\ [][HandleNext]_vars

AttrStep(t) ==
    \/ AttrCall(t)
    \/ Resolve(t)
    \/ ActOpen(t)
    \/ OpenAdd(t)
    \/ OpenReturn(t)
    \/ ActClose(t)
    \/ CloseEnd(t)
    \/ ActSetattr(t)
    \/ Set1(t)
    \/ Set2(t)
    \/ ActGetattr(t)

AttrNext == \E t \in Threads : AttrStep(t)

\* Attributes: chmod, chown, utimens and getattr on the file, with open and
\* release around them
AttrSpec == HandleInit /\ [][AttrNext]_vars

\* The directory mkdir("/b") builds after the file of HandleInit
DirB == 3

\* The calls the kernel and the backend's owner make while entries move
MoveCall(t) ==
    \/ \E m \in MkdirModes : Start(t, "mkdir", [NoLocal EXCEPT !.path = <<"b">>, !.mode = m])
    \/ Start(t, "rename", [NoLocal EXCEPT !.path = <<"a">>, !.new_path = <<"b", "b">>])
    \/ Start(t, "unlink", [NoLocal EXCEPT !.path = <<"a">>])
    \/ Start(t, "opendir", [NoLocal EXCEPT !.path = <<>>])
    \/ \E h \in Handles : Start(t, "releasedir", [NoLocal EXCEPT !.path = <<>>, !.fh = h])
    \/ Start(t, "getattr", [NoLocal EXCEPT !.path = <<"b">>])
    \/ Start(t, "replace_child", [NoLocal EXCEPT !.new = FileA])

\* A step of a call under way
MoveContinue(t) ==
    \/ Resolve(t)
    \/ ActOpen(t)
    \/ OpenAdd(t)
    \/ OpenReturn(t)
    \/ ActClose(t)
    \/ CloseEnd(t)
    \/ AddInsert(t)
    \/ add_child(t)
    \/ ActDelete(t)
    \/ remove_child(t)
    \/ rename(t)
    \/ ReplaceEnter(t)
    \/ ReplaceTouch(t)
    \/ ActGetattr(t)

MoveNext == \E t \in Threads : MoveCall(t) \/ MoveContinue(t)

\* Moves: mkdir, rename, unlink, opendir, releasedir, getattr and replace_child
\* around the open file of HandleInit; a call under way is scheduled again and
\* again, and a thread that waits for a lock gets it when it is free often enough
MoveSpec ==
    /\ HandleInit
    /\ [][MoveNext]_vars
    /\ \A t \in Threads : SF_vars(MoveContinue(t))

\* ------------------------------------------------------------- rename and delete
\* The directory of RenameInit, as MemoryDirectoryNode._create_node builds it for
\* mkdir("/b", 0o711)
DirAttributes ==
    NodeAttributesInit(
        [mode |-> BitOr(S_IFDIR, 457), size |-> 0, nlink |-> 2, uid |-> 0, gid |-> 0,
         atime |-> 1, mtime |-> 1, ctime |-> 1])

\* The file system after create("/a", 0o100644), release of its handle and
\* mkdir("/b", 0o711)
RenameInit ==
    /\ kind = [n \in NodeIds |->
                 IF n \in {Root, DirB} THEN "dir" ELSE IF n = FileA THEN "file" ELSE "free"]
    /\ parent = [n \in NodeIds |-> IF n \in {FileA, DirB} THEN Root ELSE NoNode]
    /\ name = [n \in NodeIds |->
                 IF n = Root THEN "/" ELSE IF n = FileA THEN "a" ELSE IF n = DirB THEN "b" ELSE ""]
    /\ children = [n \in NodeIds |->
                     IF n = Root THEN [NoChildren EXCEPT !["a"] = FileA, !["b"] = DirB]
                     ELSE NoChildren]
    /\ target = [n \in NodeIds |-> NoNode]
    /\ attributes = [n \in NodeIds |->
                       IF n = Root
                       THEN [RootAttributes EXCEPT !["st_nlink"] = 4,
                                                   !["st_atime"] = IntTime(1),
                                                   !["st_mtime"] = IntTime(1)]
                       ELSE IF n = FileA THEN AttributesCopy(FileAttributes)
                       ELSE IF n = DirB THEN DirAttributes
                       ELSE EmptyDict]
    /\ fs_attributes = [n \in NodeIds |->
                          IF n = Root \/ n = DirB THEN RootFSAttributes
                          ELSE IF n = FileA THEN FSAttributesCopy(RootFSAttributes)
                          ELSE EmptyDict]
    /\ extra_attributes = [n \in NodeIds |-> NodeExtraAttributesInit]
    /\ content = [n \in NodeIds |-> <<>>]
    /\ descriptor = [n \in NodeIds |-> NoDescriptor]
    /\ node_descriptors = [n \in NodeIds |-> {}]
    /\ next_node_descriptor = [n \in NodeIds |-> IF n = FileA THEN 2 ELSE 1]
    /\ descriptors_lock = [n \in NodeIds |-> 0]
    /\ children_locks = [n \in NodeIds |-> 0]
    /\ clock = 1
    /\ pc = [t \in Threads |-> "idle"]
    /\ local = [t \in Threads |-> NoLocal]
    /\ res = NoResult
    /\ mutated = [n \in NodeIds |-> FALSE]

\* One rename("/a", "/b/a") and one unlink("/a"), each called while the file is
\* still an entry of the root
RaceCall(t) ==
    /\ children[Root]["a"] = FileA
    /\ \/ /\ \A u \in Threads : local[u].op # "rename"
          /\ Start(t, "rename", [NoLocal EXCEPT !.path = <<"a">>, !.new_path = <<"b", "a">>])
       \/ /\ \A u \in Threads : local[u].op # "unlink"
          /\ Start(t, "unlink", [NoLocal EXCEPT !.path = <<"a">>])

RaceNext ==
    \E t \in Threads :
        \/ RaceCall(t)
        \/ Resolve(t)
        \/ rename(t)
        \/ add_child(t)
        \/ ActDelete(t)
        \/ remove_child(t)

\* The race: a rename and an unlink of the same file, on two threads
RaceSpec == RenameInit /\ [][RaceNext]_vars

\* ------------------------------------------------------------- one caller
\* The new paths a rename names: in the same directory and in another one
RenameTargets == {<<"a">>, <<"b">>, <<"a", "b">>, <<"b", "a">>, <<"b", "b">>}

\* The calls one caller makes, one after the other, on a tree it builds itself
RenameCall(t) ==
    \/ \E x \in Names, m \in CreateModes :
          Start(t, "create", [NoLocal EXCEPT !.path = <<x>>, !.mode = m])
    \/ \E x \in Names, m \in MkdirModes :
          Start(t, "mkdir", [NoLocal EXCEPT !.path = <<x>>, !.mode = m])
    \/ \E x \in Names : \E v \in {"unlink", "rmdir"} :
          Start(t, v, [NoLocal EXCEPT !.path = <<x>>])
    \/ \E x \in Names, q \in RenameTargets :
          \* the kernel passes on no rename of an entry onto itself or into itself
          /\ Head(q) # x
          /\ Start(t, "rename", [NoLocal EXCEPT !.path = <<x>>, !.new_path = q])

\* The single-threaded mount: one call at a time
RenameNext ==
    \E t \in {1} :
        \/ RenameCall(t)
        \/ Resolve(t)
        \/ AddInsert(t)
        \/ add_child(t)
        \/ OpenNew(t)
        \/ OpenAdd(t)
        \/ OpenReturn(t)
        \/ ActDelete(t)
        \/ remove_child(t)
        \/ rename(t)

\* Renames: create, mkdir, unlink, rmdir and rename by one caller, from the
\* empty file system
RenameSpec == Init /\ [][RenameNext]_vars

\* ------------------------------------------------------------- cached files
\* The second cached file
FileB == 3

\* The lengths truncate is called with
Lengths == {0}

\* A mount whose root holds two CachedFileNode objects, "a" and "b", built by
\* the backend's owner with the attributes of an empty regular file; nothing
\* is open and no temporary file exists
CachedInit ==
    /\ kind = [n \in NodeIds |-> IF n = Root THEN "dir" ELSE "cached"]
    /\ parent = [n \in NodeIds |-> IF n = Root THEN NoNode ELSE Root]
    /\ name = [n \in NodeIds |-> IF n = Root THEN "/" ELSE IF n = FileA THEN "a" ELSE "b"]
    /\ children = [n \in NodeIds |->
                     IF n = Root THEN [NoChildren EXCEPT !["a"] = FileA, !["b"] = FileB]
                     ELSE NoChildren]
    /\ target = [n \in NodeIds |-> NoNode]
    /\ attributes = [n \in NodeIds |->
                       IF n = Root
                       THEN [RootAttributes EXCEPT !["st_nlink"] = 4,
                                                   !["st_atime"] = IntTime(1),
                                                   !["st_mtime"] = IntTime(1)]
                       ELSE FileAttributes]
    /\ fs_attributes = [n \in NodeIds |-> RootFSAttributes]
    /\ extra_attributes = [n \in NodeIds |-> NodeExtraAttributesInit]
    /\ content = [n \in NodeIds |-> IF n = Root THEN <<>> ELSE NoFile]
    /\ descriptor = [n \in NodeIds |-> NoDescriptor]
    /\ node_descriptors = [n \in NodeIds |-> {}]
    /\ next_node_descriptor = [n \in NodeIds |-> 1]
    /\ descriptors_lock = [n \in NodeIds |-> 0]
    /\ children_locks = [n \in NodeIds |-> 0]
    /\ clock = 1
    /\ pc = [t \in Threads |-> "idle"]
    /\ local = [t \in Threads |-> NoLocal]
    /\ res = NoResult
    /\ mutated = [n \in NodeIds |-> FALSE]

\* The calls the kernel makes on the two cached files
CachedCall(t) ==
    \/ \E x \in Names : Start(t, "open", [NoLocal EXCEPT !.path = <<x>>])
    \/ \E x \in Names, h \in Handles :
          Start(t, "release", [NoLocal EXCEPT !.path = <<x>>, !.fh = h])
    \/ \E x \in Names, l \in Lengths :
          Start(t, "truncate", [NoLocal EXCEPT !.path = <<x>>, !.length = l])

CachedNext ==
    \E t \in Threads :
        \/ CachedCall(t)
        \/ Resolve(t)
        \/ ActOpen(t)
        \/ Load(t)
        \/ OpenAdd(t)
        \/ OpenReturn(t)
        \/ ActClose(t)
        \/ CloseEnd(t)
        \/ CloseRaise(t)
        \/ ActTruncate(t)
        \/ TruncateDescriptor(t)
        \/ TruncateClose(t)

\* Cached files: open, release and truncate on two files whose backend may
\* fail to load, to truncate and to close
CachedSpec == CachedInit /\ [][CachedNext]_vars

\* ------------------------------------------------------------- every verb
\* The calls one caller makes with every verb on the root directory, on the
\* file and below them
VariantCall(t) ==
    \/ \E p \in TreePaths : \E v \in {"open", "opendir", "unlink", "rmdir"} :
          Start(t, v, [NoLocal EXCEPT !.path = p])
    \/ \E p \in TreePaths, h \in Handles :
          \E v \in {"release", "releasedir", "flush", "fsync", "readdir"} :
              Start(t, v, [NoLocal EXCEPT !.path = p, !.fh = h])
    \/ \E p \in TreePaths, h \in Handles, o \in {0} :
          \/ Start(t, "read", [NoLocal EXCEPT !.path = p, !.fh = h, !.length = 1, !.offset = o])
          \/ Start(t, "write", [NoLocal EXCEPT !.path = p, !.fh = h, !.data = <<1>>,
                                                !.offset = o])
    \/ \E p \in TreePaths, l \in Lengths :
          \/ Start(t, "truncate", [NoLocal EXCEPT !.path = p, !.length = l])
          \/ \E h \in Handles :
                Start(t, "ftruncate", [NoLocal EXCEPT !.path = p, !.fh = h, !.length = l])
    \/ \E p \in {<<"b">>, <<"a", "b">>} :
          \/ \E m \in CreateModes : Start(t, "create", [NoLocal EXCEPT !.path = p, !.mode = m])
          \/ \E m \in MkdirModes : Start(t, "mkdir", [NoLocal EXCEPT !.path = p, !.mode = m])

\* The single-threaded mount: one call at a time
VariantNext ==
    \E t \in {1} :
        \/ VariantCall(t)
        \/ Resolve(t)
        \/ ActOpen(t)
        \/ OpenAdd(t)
        \/ OpenReturn(t)
        \/ ActClose(t)
        \/ CloseEnd(t)
        \/ ActDescriptor(t)
        \/ ActTruncate(t)
        \/ TruncateDescriptor(t)
        \/ TruncateClose(t)
        \/ AddInsert(t)
        \/ add_child(t)
        \/ OpenNew(t)
        \/ ActDelete(t)
        \/ remove_child(t)

\* Variants: every verb of the adapter on a directory and on a file, by one
\* caller, from the root that holds one open file
VariantSpec == HandleInit /\ [][VariantNext]_vars

\* ------------------------------------------------------------- file content
\* The longest content the calls build
MaxLen == 3

\* The calls the kernel makes on the content of the in-memory file "/a": it
\* passes no write beyond MaxLen bytes
ContentCall(t) ==
    \/ \E v \in {"open", "getattr"} : Start(t, v, [NoLocal EXCEPT !.path = <<"a">>])
    \/ \E h \in Handles : Start(t, "release", [NoLocal EXCEPT !.path = <<"a">>, !.fh = h])
    \/ \E h \in Handles, z \in 0..2, o \in 0..MaxLen :
          Start(t, "read", [NoLocal EXCEPT !.path = <<"a">>, !.fh = h, !.length = z,
                                            !.offset = o])
    \/ \E h \in Handles, d \in {<<1>>, <<1, 2>>}, o \in 0..MaxLen :
          /\ o + Len(d) <= MaxLen
          /\ Start(t, "write", [NoLocal EXCEPT !.path = <<"a">>, !.fh = h, !.data = d,
                                                !.offset = o])
    \/ \E l \in 0..MaxLen :
          \/ Start(t, "truncate", [NoLocal EXCEPT !.path = <<"a">>, !.length = l])
          \/ \E h \in Handles :
                Start(t, "ftruncate", [NoLocal EXCEPT !.path = <<"a">>, !.fh = h,
                                                       !.length = l])

\* The single-threaded mount: one call at a time
ContentNext ==
    \E t \in {1} :
        \/ ContentCall(t)
        \/ Resolve(t)
        \/ ActOpen(t)
        \/ OpenAdd(t)
        \/ OpenReturn(t)
        \/ ActClose(t)
        \/ CloseEnd(t)
        \/ ActDescriptor(t)
        \/ ActTruncate(t)
        \/ TruncateDescriptor(t)
        \/ TruncateClose(t)
        \/ ActGetattr(t)

\* Content: open, release, read, write, truncate and getattr by one caller on
\* the in-memory file that HandleInit holds open
ContentSpec == HandleInit /\ [][ContentNext]_vars

\* The calls two threads make on the size of the in-memory file "/a"
SizeCall(t) ==
    \/ \E v \in {"open", "getattr"} : Start(t, v, [NoLocal EXCEPT !.path = <<"a">>])
    \/ \E h \in Handles : Start(t, "release", [NoLocal EXCEPT !.path = <<"a">>, !.fh = h])
    \/ \E h \in Handles, o \in {0, 1} :
          Start(t, "write", [NoLocal EXCEPT !.path = <<"a">>, !.fh = h, !.data = <<1>>,
                                             !.offset = o])
    \/ \E l \in {0, 2} :
          \/ Start(t, "truncate", [NoLocal EXCEPT !.path = <<"a">>, !.length = l])
          \/ \E h \in Handles :
                Start(t, "ftruncate", [NoLocal EXCEPT !.path = <<"a">>, !.fh = h,
                                                       !.length = l])

SizeNext ==
    \E t \in Threads :
        \/ SizeCall(t)
        \/ Resolve(t)
        \/ ActOpen(t)
        \/ OpenAdd(t)
        \/ OpenReturn(t)
        \/ ActClose(t)
        \/ CloseEnd(t)
        \/ ActDescriptor(t)
        \/ ActTruncate(t)
        \/ TruncateDescriptor(t)
        \/ TruncateClose(t)
        \/ ActGetattr(t)

\* Sizes: open, release, write, truncate and getattr by two threads on the
\* in-memory file that HandleInit holds open
SizeSpec == HandleInit /\ [][SizeNext]_vars

\* ------------------------------------------------------------- owners
\* The calls one caller makes to build, list and remove entries under a root
\* directory it opens and whose attributes it changes
OwnerCall(t) ==
    \/ Start(t, "opendir", [NoLocal EXCEPT !.path = <<>>])
    \/ \E m \in ChmodModes : Start(t, "chmod", [NoLocal EXCEPT !.path = <<>>, !.mode = m])
    \/ \E u \in Owners, g \in Owners :
          Start(t, "chown", [NoLocal EXCEPT !.path = <<>>, !.uid = u, !.gid = g])
    \/ \E ta \in Times, tm \in Times :
          Start(t, "utimens", [NoLocal EXCEPT !.path = <<>>, !.atime = ta, !.mtime = tm])
    \/ \E x \in Names, m \in CreateModes :
          Start(t, "create", [NoLocal EXCEPT !.path = <<x>>, !.mode = m])
    \/ \E x \in Names, m \in MkdirModes :
          Start(t, "mkdir", [NoLocal EXCEPT !.path = <<x>>, !.mode = m])
    \/ \E p \in Paths : Start(t, "getattr", [NoLocal EXCEPT !.path = p])
    \/ \E x \in Names : \E v \in {"unlink", "rmdir"} :
          Start(t, v, [NoLocal EXCEPT !.path = <<x>>])
    \/ \E h \in Handles : Start(t, "readdir", [NoLocal EXCEPT !.path = <<>>, !.fh = h])

\* The single-threaded mount: one call at a time
OwnerNext ==
    \E t \in {1} :
        \/ OwnerCall(t)
        \/ Resolve(t)
        \/ ActOpen(t)
        \/ OpenAdd(t)
        \/ OpenReturn(t)
        \/ ActSetattr(t)
        \/ Set1(t)
        \/ Set2(t)
        \/ AddInsert(t)
        \/ add_child(t)
        \/ OpenNew(t)
        \/ ActGetattr(t)
        \/ ActDelete(t)
        \/ remove_child(t)
        \/ ActDescriptor(t)

\* Owners: opendir, readdir, chmod, chown and utimens on the root, create,
\* mkdir, unlink and rmdir under it and getattr, by one caller, from the empty
\* file system
OwnerSpec == Init /\ [][OwnerNext]_vars

\* ------------------------------------------------------------- extended attributes
\* A mount whose root holds the file "a", built by the backend's owner as
\* MemoryFileNode(root, 'a', ..., extra_attributes=MemoryNodeExtraAttributes())
\* and added with root.add_child at time 0.5; nothing is open
XattrInit ==
    /\ kind = [n \in NodeIds |-> IF n = Root THEN "dir" ELSE IF n = FileA THEN "file" ELSE "free"]
    /\ parent = [n \in NodeIds |-> IF n = FileA THEN Root ELSE NoNode]
    /\ name = [n \in NodeIds |-> IF n = Root THEN "/" ELSE IF n = FileA THEN "a" ELSE ""]
    /\ children = [n \in NodeIds |->
                     IF n = Root THEN [NoChildren EXCEPT !["a"] = FileA] ELSE NoChildren]
    /\ target = [n \in NodeIds |-> NoNode]
    /\ attributes = [n \in NodeIds |->
                       IF n = Root
                       THEN [RootAttributes EXCEPT !["st_nlink"] = 3,
                                                   !["st_atime"] = IntTime(1),
                                                   !["st_mtime"] = IntTime(1)]
                       ELSE IF n = FileA THEN FileAttributes
                       ELSE EmptyDict]
    /\ fs_attributes = [n \in NodeIds |->
                          IF n \in {Root, FileA} THEN RootFSAttributes ELSE EmptyDict]
    /\ extra_attributes = [n \in NodeIds |->
                             IF n = FileA THEN MemoryNodeExtraAttributesInit
                             ELSE NodeExtraAttributesInit]
    /\ content = [n \in NodeIds |-> <<>>]
    /\ descriptor = [n \in NodeIds |-> NoDescriptor]
    /\ node_descriptors = [n \in NodeIds |-> {}]
    /\ next_node_descriptor = [n \in NodeIds |-> 1]
    /\ descriptors_lock = [n \in NodeIds |-> 0]
    /\ children_locks = [n \in NodeIds |-> 0]
    /\ clock = 1
    /\ pc = [t \in Threads |-> "idle"]
    /\ local = [t \in Threads |-> NoLocal]
    /\ res = NoResult
    /\ mutated = [n \in NodeIds |-> FALSE]

\* The calls one caller makes on the extended attributes of the owner's file
\* "a" and of the file "b" it creates
XattrCall(t) ==
    \/ \E m \in CreateModes : Start(t, "create", [NoLocal EXCEPT !.path = <<"b">>, !.mode = m])
    \/ \E x \in Names : Start(t, "open", [NoLocal EXCEPT !.path = <<x>>])
    \/ \E x \in Names, h \in Handles :
          Start(t, "release", [NoLocal EXCEPT !.path = <<x>>, !.fh = h])
    \/ \E x \in Names : Start(t, "getattr", [NoLocal EXCEPT !.path = <<x>>])
    \/ \E x \in Names : \E v \in {"getxattr", "removexattr"} :
          Start(t, v, [NoLocal EXCEPT !.path = <<x>>, !.attr = "k"])
    \/ \E x \in Names, val \in {"v", "w"} :
          Start(t, "setxattr", [NoLocal EXCEPT !.path = <<x>>, !.attr = "k", !.value = val])

\* The single-threaded mount: one call at a time
XattrNext ==
    \E t \in {1} :
        \/ XattrCall(t)
        \/ Resolve(t)
        \/ ActOpen(t)
        \/ OpenAdd(t)
        \/ OpenReturn(t)
        \/ ActClose(t)
        \/ CloseEnd(t)
        \/ AddInsert(t)
        \/ add_child(t)
        \/ OpenNew(t)
        \/ ActGetattr(t)
        \/ ActXattr(t)

\* Extended attributes: setxattr, getxattr and removexattr by one caller on a
\* file built with MemoryNodeExtraAttributes and on a file it creates
XattrSpec == XattrInit /\ [][XattrNext]_vars

\* ------------------------------------------------------------- paths
\* The longest path get_child is called with, in characters
MaxPath == 5

\* The calls one caller makes: root.get_child(path) with every path of up to
\* MaxPath characters in which no two names are adjacent, and the rename that
\* moves the file into the directory
ChildCall(t) ==
    \/ \E k \in 0..MaxPath : \E raw \in [1..k -> {SEPARATOR} \cup Names] :
          /\ \A i \in 1..(k - 1) : raw[i] = SEPARATOR \/ raw[i + 1] = SEPARATOR
          /\ Start(t, "get_child", [NoLocal EXCEPT !.path = Split(raw), !.raw = raw])
    \/ Start(t, "rename", [NoLocal EXCEPT !.path = <<"a">>, !.new_path = <<"b", "a">>])

\* The single-threaded mount: one call at a time
ChildNext ==
    \E t \in {1} :
        \/ ChildCall(t)
        \/ Resolve(t)
        \/ ActGetChild(t)
        \/ rename(t)
        \/ add_child(t)
        \/ remove_child(t)

\* Paths: get_child by one caller on a root that holds a file and a directory,
\* before and after the file moves into the directory
ChildSpec == RenameInit /\ [][ChildNext]_vars

\* ------------------------------------------------------------- symlink calls
SymlinkNext == \E t \in Threads : EntryStep(t) \/ symlink(t)

\* Symlinks: symlink called between and during create, mkdir, unlink and rmdir
\* under a root directory that stays open
SymlinkSpec == OpenDirInit /\ [][SymlinkNext]_vars

\* ------------------------------------------------------------- links
LinkNext ==
    \E t \in {1} :
        \/ HandleStep(t)
        \/ \E p \in TreePaths : Start(t, "getattr", [NoLocal EXCEPT !.path = p])
        \/ ActGetattr(t)
        \/ LinkNodeInit(t)

\* Links: the owner builds a LinkNode to the root or to the file, before,
\* between or after the opens and releases of one caller
LinkSpec == HandleInit /\ [][LinkNext]_vars

\* ------------------------------------------------------------- times and handles
\* The calls one caller makes on the attributes of the file: getattr without
\* and with a handle, utimens with two different times, open and release
TimesCall(t) ==
    \/ \E v \in {"open", "getattr"} : Start(t, v, [NoLocal EXCEPT !.path = <<"a">>])
    \/ \E h \in Handles : \E v \in {"release", "getattr_fh"} :
          Start(t, v, [NoLocal EXCEPT !.path = <<"a">>, !.fh = h])
    \/ \E ta \in Times, tm \in {5} :
          Start(t, "utimens", [NoLocal EXCEPT !.path = <<"a">>, !.atime = ta, !.mtime = tm])

TimesNext ==
    \E t \in {1} :
        \/ TimesCall(t)
        \/ Resolve(t)
        \/ ActOpen(t)
        \/ OpenAdd(t)
        \/ OpenReturn(t)
        \/ ActClose(t)
        \/ CloseEnd(t)
        \/ ActSetattr(t)
        \/ Set1(t)
        \/ Set2(t)
        \/ ActGetattr(t)
        \/ ActGetattrHandle(t)

\* Times: one caller on the file create("/a") has left open
TimesSpec == HandleInit /\ [][TimesNext]_vars

\* ------------------------------------------------------------- renames that fail
\* History: the children maps and the link counts getattr reports, as a call
\* finds them when it starts
TreeNow ==
    [children |-> children,
     nlink |-> [d \in NodeIds |->
                  IF kind[d] = "dir" THEN get_all(d, get_attributes(d))["st_nlink"] ELSE 0]]

\* The new paths of the renames of "/a": into the directory, under a name the
\* root has, under the file itself, and under a directory that is missing
FailTargets == {<<"b", "a">>, <<"b">>, <<"a", "b">>, <<"b", "b", "a">>}

\* One rename of "/a" and one unlink("/a") at a time, each called while the
\* file is still an entry of the root
FailCall(t) ==
    /\ children[Root]["a"] = FileA
    /\ \/ /\ \A u \in Threads : local[u].op # "rename"
          /\ \E q \in FailTargets :
                Start(t, "rename", [NoLocal EXCEPT !.path = <<"a">>, !.new_path = q,
                                                   !.before = TreeNow])
       \/ /\ \A u \in Threads : local[u].op # "unlink"
          /\ Start(t, "unlink", [NoLocal EXCEPT !.path = <<"a">>])

FailNext ==
    \E t \in Threads :
        \/ FailCall(t)
        \/ Resolve(t)
        \/ rename(t)
        \/ add_child(t)
        \/ ActDelete(t)
        \/ remove_child(t)

\* Failures: renames of the file that fail or succeed, next to an unlink of it
\* on a second thread
FailSpec == RenameInit /\ [][FailNext]_vars

\* ------------------------------------------------------------- handles of a path
\* The calls one caller makes on the path "/a": it creates, opens and unlinks
\* the file and reads, writes and releases with the handle ids it was given
ReuseCall(t) ==
    \/ \E m \in CreateModes :
          Start(t, "create", [NoLocal EXCEPT !.path = <<"a">>, !.mode = m])
    \/ \E v \in {"open", "unlink"} : Start(t, v, [NoLocal EXCEPT !.path = <<"a">>])
    \/ \E h \in Handles :
          \/ Start(t, "release", [NoLocal EXCEPT !.path = <<"a">>, !.fh = h])
          \/ Start(t, "read", [NoLocal EXCEPT !.path = <<"a">>, !.fh = h, !.length = 1])
          \/ Start(t, "write", [NoLocal EXCEPT !.path = <<"a">>, !.fh = h, !.data = <<1>>])

ReuseNext ==
    \E t \in {1} :
        \/ ReuseCall(t)
        \/ Resolve(t)
        \/ AddInsert(t)
        \/ add_child(t)
        \/ OpenNew(t)
        \/ ActOpen(t)
        \/ OpenAdd(t)
        \/ OpenReturn(t)
        \/ ActClose(t)
        \/ CloseEnd(t)
        \/ ActDelete(t)
        \/ remove_child(t)
        \/ ActDescriptor(t)

\* Reuse: one caller on one path that names a first file and, after unlink and
\* create, a second one
ReuseSpec == Init /\ [][ReuseNext]_vars

\* ------------------------------------------------------------- rmdir
\* The calls one caller makes around rmdir: it opens and releases the root,
\* makes the directory "/a" and an entry "/a/b" in it and removes them
RmdirCall(t) ==
    \/ Start(t, "opendir", [NoLocal EXCEPT !.path = <<>>])
    \/ \E h \in Handles : Start(t, "releasedir", [NoLocal EXCEPT !.path = <<>>, !.fh = h])
    \/ \E p \in {<<"a">>, <<"a", "b">>}, m \in MkdirModes :
          Start(t, "mkdir", [NoLocal EXCEPT !.path = p, !.mode = m])
    \/ \E m \in CreateModes :
          Start(t, "create", [NoLocal EXCEPT !.path = <<"a", "b">>, !.mode = m])
    \/ \E p \in {<<>>, <<"a">>, <<"a", "b">>} :
          Start(t, "rmdir", [NoLocal EXCEPT !.path = p, !.before = TreeNow])
    \/ \E p \in {<<>>, <<"a", "b">>} : Start(t, "getattr", [NoLocal EXCEPT !.path = p])

RmdirNext ==
    \E t \in {1} :
        \/ RmdirCall(t)
        \/ Resolve(t)
        \/ ActOpen(t)
        \/ OpenAdd(t)
        \/ OpenReturn(t)
        \/ ActClose(t)
        \/ CloseEnd(t)
        \/ AddInsert(t)
        \/ add_child(t)
        \/ OpenNew(t)
        \/ ActDelete(t)
        \/ remove_child(t)
        \/ ActGetattr(t)

\* Removals: rmdir of empty and non-empty directories by one caller, under a
\* root that is open or closed
RmdirSpec == Init /\ [][RmdirNext]_vars

\* ------------------------------------------------------------- replace_child
\* The calls one caller makes around replace_child on the root: it opens and
\* releases the root, reads its attributes and replaces an entry by a file
\* node built for it
ReplaceCall(t) ==
    \/ Start(t, "opendir", [NoLocal EXCEPT !.path = <<>>])
    \/ \E h \in Handles : Start(t, "releasedir", [NoLocal EXCEPT !.path = <<>>, !.fh = h])
    \/ Start(t, "getattr", [NoLocal EXCEPT !.path = <<>>])
    \/ \E n \in {m \in NodeIds : kind[m] = "file"} :
          Start(t, "replace_child", [NoLocal EXCEPT !.new = n, !.before = TreeNow])

ReplaceNext ==
    \/ Tick
    \/ \E t \in {1} :
          \/ ReplaceCall(t)
          \/ MemoryFileNodeInit(t)
          \/ ActOpen(t)
          \/ OpenAdd(t)
          \/ OpenReturn(t)
          \/ ActClose(t)
          \/ CloseEnd(t)
          \/ ActGetattr(t)
          \/ ReplaceEnter(t)
          \/ ReplaceTouch(t)

\* Replacements: replace_child on the root of HandleInit, open or closed, a
\* second or more after the root's times were last written
ReplaceSpec == HandleInit /\ [][ReplaceNext]_vars

TypeOK ==
    /\ \A n \in NodeIds : kind[n] \in {"free", "dir", "file", "cached", "link"}
    /\ \A n \in NodeIds : descriptors_lock[n] \in Threads \cup {0}
    /\ \A n \in NodeIds : children_locks[n] \in Threads \cup {0}
    /\ \A n \in NodeIds : node_descriptors[n] \subseteq Handles
    /\ \A t \in Threads : local[t].ref \in {"none", "node", "desc", "orphan"}
    /\ clock \in {1, 3}

\* ------------------------------------------------------------- properties
\* The attributes a caller now reads as the node's: the descriptor's copy
\* while the node is open, the node's own otherwise
Reported(n) == IF descriptor[n].live THEN descriptor[n].attributes ELSE attributes[n]

\* The same after the step
ReportedNext(n) == IF descriptor'[n].live THEN descriptor'[n].attributes ELSE attributes'[n]

\* Thread t takes the step that leads it from one label to another
Stepped(t, from, to) == pc[t] = from /\ pc'[t] = to

\* The names directory d has entries for
Entries(d) == {x \in Names : children[d][x] # NoNode}

C2_SharedDescriptor ==
    [][\A t \in Threads :
          LET n == local[t].node
              m == local'[t].node
          IN  /\ (pc[t] # "open_add" /\ pc'[t] = "open_add") =>
                    /\ descriptor'[m].live
                    /\ descriptor[m].live => descriptor'[m] = descriptor[m]
              /\ Stepped(t, "open_add", "open_ret") =>
                    /\ local[t].fh \notin node_descriptors[n]
                    /\ node_descriptors'[n] = node_descriptors[n] \cup {local[t].fh}
                    /\ descriptor'[n] = descriptor[n]
              /\ (Stepped(t, "close_end", "idle") /\ node_descriptors[n] # {}) =>
                    /\ descriptor[n].live
                    /\ descriptor'[n] = descriptor[n]
              /\ (Stepped(t, "close_end", "idle") /\ node_descriptors[n] = {}) =>
                    /\ ~descriptor'[n].live
                    /\ attributes'[n] = descriptor[n].attributes
                    /\ fs_attributes'[n] = descriptor[n].fs_attributes
                    /\ extra_attributes'[n] = descriptor[n].extra_attributes
      ]_vars

\* Two handles of the root were open and one of them has just been closed:
\* the descriptor the first open built is still there
C2_Witness ==
    /\ res.op = "releasedir"
    /\ res.err = "OK"
    /\ Cardinality(node_descriptors[Root]) = 1
    /\ descriptor[Root].live
    /\ descriptor[Root].serial = 1

\* C3: the handle ids a node gives out grow strictly over the node's life: an
\* open returns the value of the counter and moves the counter up by one, the
\* counter never goes down, the only id a step adds is the counter's value,
\* above every id the node holds, and an id that is closed lies below the
\* counter, so that no later open gives it out and no later close takes it.
C3_HandlesIncrease ==
    [][\A n \in NodeIds :
          /\ next_node_descriptor'[n] >= next_node_descriptor[n]
          /\ \A h \in node_descriptors'[n] \ node_descriptors[n] :
                /\ h = next_node_descriptor[n]
                /\ \A g \in node_descriptors[n] : g < h
          /\ \A h \in node_descriptors[n] \ node_descriptors'[n] :
                /\ h < next_node_descriptor'[n]
                /\ descriptors_lock[n] = 0 => h < next_node_descriptor[n]
          /\ (res'.op \in {"open", "opendir"} /\ res'.err = "OK" /\ res'.node = n) =>
                /\ res'.val = next_node_descriptor[n]
                /\ next_node_descriptor'[n] = next_node_descriptor[n] + 1
      ]_vars

\* The file's first handle is closed and an open has just returned another id
C3_Witness ==
    /\ res.op = "open"
    /\ res.err = "OK"
    /\ res.node = FileA
    /\ res.val = 2
    /\ node_descriptors[FileA] = {2}

C5_CloseKeepsSnapshots ==
    [][\A t \in Threads :
          LET n == local[t].node
          IN  (Stepped(t, "close_end", "idle") /\ node_descriptors[n] = {} /\ ~mutated[n])
              => /\ attributes'[n] = attributes[n]
                 /\ fs_attributes'[n] = fs_attributes[n]
                 /\ extra_attributes'[n] = extra_attributes[n]
      ]_vars

\* The file's last handle has just been closed and the file's attributes are
\* the ones create gave it
C5_Witness ==
    /\ res.op = "release"
    /\ res.err = "OK"
    /\ res.node = FileA
    /\ ~descriptor[FileA].live
    /\ attributes[FileA] = FileAttributes
    /\ fs_attributes[FileA] = RootFSAttributes
    /\ extra_attributes[FileA] = NodeExtraAttributesInit

C7_LinkCountStep ==
    [][\A t \in Threads :
          LET d == RefNode(t)
          IN  /\ (Stepped(t, "add_nlink", "add_get2") /\ local[t].ref = get_attributes(d)) =>
                    ReportedNext(d)["st_nlink"] = Reported(d)["st_nlink"] + 1
              /\ (Stepped(t, "rm_nlink", "rm_get2") /\ local[t].ref = get_attributes(d)) =>
                    ReportedNext(d)["st_nlink"] = Reported(d)["st_nlink"] - 1
      ]_vars

\* C8: after any interleaving of create, mkdir, unlink and rmdir calls on the
\* entries of one directory, once every call has returned, the link count the
\* directory reports is its count before the calls (2, with no entries) plus
\* the number of entries it has now.
C8_LinkCountMatchesEntries ==
    (\A t \in Threads : pc[t] = "idle") =>
        Reported(Root)["st_nlink"] = 2 + Cardinality(Entries(Root))

\* C9: of two concurrent calls that make the same entry, the one that comes
\* second fails with EEXIST and changes nothing, the one that inserts makes
\* the directory map the name to its node, and its add_child raises the link
\* count the directory reports by exactly one.
C9_ConcurrentCreate ==
    [][\A t, u \in Threads :
          LET d == local[t].node
              x == Basename(local[t].path)
          IN  (/\ t # u
               /\ local[t].op \in CreateVerbs
               /\ local[u].op \in CreateVerbs
               /\ local[t].path = local[u].path)
              => /\ (pc[t] = "act" /\ pc'[t] # "act" /\ local[u].new # NoNode) =>
                       /\ res'.err = "EEXIST"
                       /\ children' = children
                       /\ ReportedNext(d) = Reported(d)
                 /\ Stepped(t, "act", "add_get1") =>
                       /\ local[u].new = NoNode
                       /\ children'[d][x] = local'[t].new
                 /\ Stepped(t, "add_nlink", "add_get2") =>
                       /\ children[d][x] = local[t].new
                       /\ ReportedNext(d)["st_nlink"] = Reported(d)["st_nlink"] + 1
      ]_vars

\* C10: add_child is atomic with respect to failure: a call that fails leaves
\* the directory's entries, link count and timestamps as they were, and a call
\* that succeeds has both inserted the child and raised the link count the
\* directory reports by one.
C10_AddChildAtomic ==
    [][\A t \in Threads :
          LET d == local[t].node
          IN  /\ (/\ pc[t] = "act"
                  /\ local[t].op \in CreateVerbs
                  /\ pc'[t] = "idle") =>
                    /\ res'.err \in {"EEXIST", "ENOTDIR"}
                    /\ children' = children
                    /\ ReportedNext(d) = Reported(d)
              /\ Stepped(t, "add_nlink", "add_get2") =>
                    /\ children[d][name[local[t].new]] = local[t].new
                    /\ ReportedNext(d)["st_nlink"] = Reported(d)["st_nlink"] + 1
      ]_vars

\* The lock the next step of thread t enters: the children lock or the
\* descriptors lock of a node
Wanted(t) ==
    LET n == local[t].node
        op == local[t].op
    IN  IF pc[t] \in {"resolve", "rn_resolve", "rn_check", "rn_add"}
        THEN <<"children", n>>
        ELSE IF pc[t] = "rn_remove" THEN <<"children", parent[n]>>
        ELSE IF pc[t] = "act" /\ op \in {"create", "mkdir", "replace_child"}
        THEN <<"children", n>>
        ELSE IF pc[t] = "act" /\ op \in {"unlink", "rmdir"} THEN <<"children", parent[n]>>
        ELSE IF pc[t] = "act" /\ op # "rename" THEN <<"descriptors", n>>
        ELSE IF pc[t] = "open_new" THEN <<"descriptors", local[t].new>>
        ELSE IF pc[t] \in {"add_get1", "add_get2", "add_get3", "rm_get1", "rm_get2", "rm_get3"}
        THEN <<"descriptors", RefNode(t)>>
        ELSE <<"none", NoNode>>

\* Thread t waits for a lock that thread u holds
WaitsFor(t, u) ==
    /\ Wanted(t)[2] # NoNode
    /\ \/ /\ Wanted(t)[1] = "children"
          /\ ~CanEnter(children_locks, Wanted(t)[2], t)
          /\ children_locks[Wanted(t)[2]] = u
       \/ /\ Wanted(t)[1] = "descriptors"
          /\ ~CanEnter(descriptors_lock, Wanted(t)[2], t)
          /\ descriptors_lock[Wanted(t)[2]] = u

\* Some threads wait for locks in a cycle: each of them waits for one of them
WaitCycle ==
    \E W \in SUBSET Threads :
        /\ W # {}
        /\ \A t \in W : \E u \in W : WaitsFor(t, u)

\* C11: no interleaving of open, close, get_attributes, add_child,
\* remove_child, replace_child, get_child, create, delete and rename reaches a
\* state in which threads wait for each other's locks in a cycle, and under
\* fair scheduling every call that has started returns or fails.
C11_NoDeadlock ==
    /\ [](~WaitCycle)
    /\ \A t \in Threads : (pc[t] # "idle") ~> (pc[t] = "idle")

\* A rename holds the children lock of the root, where it removes the entry,
\* and waits for the root's descriptors lock, which an opendir holds
C11_Witness ==
    \E t, u \in Threads :
        /\ local[t].op = "rename"
        /\ pc[t] = "rm_get1"
        /\ children_locks[Root] = t
        /\ local[u].op = "opendir"
        /\ descriptors_lock[Root] = u
        /\ WaitsFor(t, u)

\* The directories that hold node n as an entry
Holders(n) == {d \in NodeIds : \E x \in Names : children[d][x] = n}

HoldersNext(n) == {d \in NodeIds : \E x \in Names : children'[d][x] = n}

\* C12: a rename of a node that races with an unlink of the same node ends as
\* one of the two serial orders does.  After rename-then-delete the rename
\* has succeeded, the unlink has failed, the node is an entry of the new
\* directory only and both directories count three links; after
\* delete-then-rename the unlink has succeeded, the rename has failed, the node
\* is an entry of no directory and the new directory counts two links.  So a
\* rename that fails leaves the node in no directory, a rename that succeeds or
\* an unlink that fails leaves it in the new directory only, an unlink that
\* succeeds leaves it out of the root, and the link counts at the end of the
\* race fit the entries.
C12_RaceIsSerial ==
    [][/\ (res'.op = "rename" /\ res'.err # "OK") => HoldersNext(FileA) = {}
       /\ (res'.op = "rename" /\ res'.err = "OK") => HoldersNext(FileA) = {DirB}
       /\ (res'.op = "unlink" /\ res'.err # "OK") => HoldersNext(FileA) = {DirB}
       /\ (res'.op = "unlink" /\ res'.err = "OK") => Root \notin HoldersNext(FileA)
       /\ (res'.op \in {"rename", "unlink"} /\ \A t \in Threads : pc'[t] = "idle") =>
             /\ attributes'[Root]["st_nlink"] = 3
             /\ attributes'[DirB]["st_nlink"] = 2 + Cardinality(HoldersNext(FileA) \cap {DirB})
      ]_vars

\* No call is under way
Quiet == \A t \in Threads : pc[t] = "idle"

\* C13: between calls, every node stored in a directory's children map has
\* that directory as its parent and the key it is stored under as its name.
C13_ChildrenMatch ==
    Quiet =>
      \A d \in NodeIds : \A x \in Names :
          children[d][x] # NoNode =>
              /\ parent[children[d][x]] = d
              /\ name[children[d][x]] = x

\* DirectoryNode.get_child(path) from directory d, on the tree a step leaves
RECURSIVE WalkNext(_, _)
WalkNext(d, path) ==
    IF path = <<>> THEN d
    ELSE IF d = NoNode \/ kind'[d] # "dir" THEN NoNode
    ELSE WalkNext(children'[d][Head(path)], Tail(path))

\* C14: when a rename(old, new) returns without an error, the new path
\* resolves to the renamed node and the old path resolves to nothing.
C14_RenameMoves ==
    [][\A t \in Threads :
          (local[t].op = "rename" /\ res'.op = "rename" /\ res'.err = "OK"
             /\ pc[t] # "idle" /\ pc'[t] = "idle") =>
              /\ WalkNext(Root, local[t].new_path) = res'.node
              /\ WalkNext(Root, local[t].path) = NoNode
      ]_vars

\* C15: between calls, a node that unlink or rmdir has removed from the tree
\* has no open handle and no live descriptor.
C15_RemovedIsClosed ==
    \A n \in NodeIds \ {Root} :
        (Quiet /\ kind[n] # "free" /\ Holders(n) = {}) =>
            /\ node_descriptors[n] = {}
            /\ ~descriptor[n].live

\* C16: when a truncate called without a handle ends, after descriptor.truncate
\* has returned or raised, the handle it opened is open no more, and if no
\* handle is left the node has no descriptor.
C16_TransientHandle ==
    [][\A t \in Threads :
          (local[t].op = "truncate" /\ pc[t] \in {"tr_desc", "close_end"}
             /\ pc'[t] = "idle" /\ res'.err \in {"OK", "EIO"}) =>
              /\ local[t].fh \notin node_descriptors'[local[t].node]
              /\ node_descriptors'[local[t].node] = {} => ~descriptor'[local[t].node].live
      ]_vars

\* C17: when the construction of the descriptor fails during an open, the call
\* fails, the node's set of open handles is what it was, the node has no
\* descriptor, and the counter still holds the id the failed open had read.
C17_FailedOpen ==
    [][\A t \in Threads :
          (pc[t] = "load" /\ pc'[t] = "idle") =>
              /\ res'.err \in {"EIO", "OSError"}
              /\ node_descriptors'[local[t].node] = node_descriptors[local[t].node]
              /\ local[t].fh \notin node_descriptors'[local[t].node]
              /\ ~descriptor'[local[t].node].live
              /\ next_node_descriptor'[local[t].node] = local[t].fh
      ]_vars

\* An open has failed with EIO while the file was loaded; the node is closed
\* and its counter has not moved
C17_Witness ==
    /\ res.op = "open"
    /\ res.err = "EIO"
    /\ node_descriptors[res.node] = {}
    /\ ~descriptor[res.node].live
    /\ next_node_descriptor[res.node] = 1

\* C18: when the release hook fails during the close of the last open handle,
\* the handle is in the open set no more and the node has no descriptor.
C18_FailedRelease ==
    [][\A t \in Threads :
          (pc[t] = "close_end" /\ pc'[t] = "idle" /\ res'.err # "OK") =>
              /\ local[t].fh \notin node_descriptors'[local[t].node]
              /\ ~descriptor'[local[t].node].live
      ]_vars

\* The places of a call inside the with block of Node.open or Node.close
InsideLock == {"load", "open_add", "open_ret", "close_end"}

\* C19: opens of one node take turns on the node's lock: no two threads are
\* inside open or close of the same node, a descriptor is built only when the
\* node has none and no handle is open, and the thread that loads a file holds
\* the lock of that node and of no other.
C19_OpensSerialized ==
    /\ [](\A t, u \in Threads :
            (t # u /\ pc[t] \in InsideLock /\ pc[u] \in InsideLock) =>
                local[t].node # local[u].node)
    /\ [](\A t \in Threads :
            pc[t] = "load" =>
                /\ descriptors_lock[local[t].node] = t
                /\ \A m \in NodeIds \ {local[t].node} : descriptors_lock[m] # t
                /\ \A m \in NodeIds : children_locks[m] # t)
    /\ [][\A t \in Threads :
             (pc[t] = "load" /\ pc'[t] = "open_add") =>
                 /\ ~descriptor[local[t].node].live
                 /\ node_descriptors[local[t].node] = {}
                 /\ descriptor'[local[t].node].live
         ]_vars

\* One thread loads file a while the other waits to open the same file
C19_Witness ==
    \E t, u \in Threads :
        /\ pc[t] = "load"
        /\ local[t].node = FileA
        /\ pc[u] = "act"
        /\ local[u].op = "open"
        /\ local[u].node = FileA
        /\ ~CanEnter(descriptors_lock, FileA, u)

\* The verbs that need a file, and the verbs that need a directory
NeedFile == {"open", "read", "write", "truncate", "ftruncate", "flush", "fsync", "release"}

NeedDirectory == {"opendir", "readdir", "releasedir", "rmdir", "create", "mkdir"}

Runs(t, op) ==
    /\ pc[t] = "act"
    /\ local[t].op = op
    /\ kind[local[t].node] = "file"
    /\ local[t].fh \in node_descriptors[local[t].node]
    /\ pc'[t] = "idle"

\* C21: in the in-memory backend a write whose offset is greater than the
\* length of the content raises ESPIPE and leaves the content, the size and the
\* timestamps as they were; a write whose offset equals the length of the
\* content succeeds and appends its data.
C21_WriteBeyondEnd ==
    [][\A t \in Threads :
          Runs(t, "write") =>
             LET n == local[t].node
                 c == descriptor[n].content
             IN  /\ local[t].offset > Len(c) =>
                      /\ res'.err = "ESPIPE"
                      /\ descriptor' = descriptor
                      /\ content' = content
                      /\ attributes' = attributes
                 /\ local[t].offset = Len(c) =>
                      /\ res'.err = "OK"
                      /\ descriptor'[n].content = c \o local[t].data]_vars

\* A write beyond the end of a content that is not empty has just failed
C21_Witness ==
    /\ res.op = "write"
    /\ res.err = "ESPIPE"
    /\ descriptor[FileA].live
    /\ Len(descriptor[FileA].content) = 1
    /\ descriptor[FileA].attributes["st_size"] = 1

C23_TruncateExact ==
    [][\A t \in Threads :
          LET n == local[t].node
              c == descriptor[n].content
              l == local[t].length
              after == descriptor'[n].content
          IN  (/\ pc[t] = "tr_desc"
               /\ kind[n] = "file"
               /\ local[t].fh \in node_descriptors[n]
               /\ pc'[t] # "tr_desc")
              => /\ Len(after) = l
                 /\ l > Len(c) => after = c \o [i \in 1..(l - Len(c)) |-> 0]
                 /\ l < Len(c) => after = SubSeq(c, 1, l)
                 /\ l = Len(c) => after = c]_vars

\* A truncate has just padded a content of two bytes to three
C23_Witness ==
    /\ res.op = "ftruncate"
    /\ res.err = "OK"
    /\ descriptor[FileA].live
    /\ descriptor[FileA].content = <<1, 2, 0>>

\* C24: in the in-memory backend read(size, offset) never fails; it returns the
\* bytes of the content from min(len, offset) up to min(len, offset + size),
\* nothing when the offset is at or past the end, and it changes neither the
\* content nor any attribute.
C24_ReadClamps ==
    [][\A t \in Threads :
          Runs(t, "read") =>
             LET c == descriptor[local[t].node].content
                 lo == IF local[t].offset <= Len(c) THEN local[t].offset ELSE Len(c)
                 end == local[t].offset + local[t].length
                 hi == IF end <= Len(c) THEN end ELSE Len(c)
             IN  /\ res'.err = "OK"
                 /\ res'.val = [i \in 1..(hi - lo) |-> c[lo + i]]
                 /\ local[t].offset >= Len(c) => res'.val = <<>>
                 /\ descriptor' = descriptor
                 /\ content' = content
                 /\ attributes' = attributes]_vars

\* A read has just returned the second byte of a content of two bytes
C24_Witness ==
    /\ res.op = "read"
    /\ res.err = "OK"
    /\ res.val = <<2>>
    /\ descriptor[FileA].live
    /\ descriptor[FileA].content = <<1, 2>>

\* C25: in the in-memory backend a write(data, offset) with offset <= len(c)
\* returns len(data) and leaves c[0:offset] + data + c[offset+len(data):]: the
\* bytes before the offset and those after the data stay, so a write inside
\* the content keeps its length and a write that reaches past the end grows it
\* to offset + len(data).
C25_WriteOverwrites ==
    [][\A t \in Threads :
          LET n == local[t].node
              c == descriptor[n].content
              o == local[t].offset
              d == local[t].data
              end == o + Len(d)
              after == descriptor'[n].content
          IN  (Runs(t, "write") /\ o <= Len(c))
              => /\ res'.err = "OK"
                 /\ res'.val = Len(d)
                 /\ Len(after) = IF end <= Len(c) THEN Len(c) ELSE end
                 /\ \A i \in 1..Len(after) :
                       after[i] = IF i <= o THEN c[i]
                                  ELSE IF i <= end THEN d[i - o]
                                  ELSE c[i]]_vars

\* A write of two bytes at the start of a content of three bytes has just
\* overwritten the first two and kept the third
C25_Witness ==
    /\ res.op = "write"
    /\ res.err = "OK"
    /\ res.val = 2
    /\ descriptor[FileA].live
    /\ descriptor[FileA].content = <<1, 2, 2>>

\* C26: in the in-memory backend the content and the size a session leaves are
\* those the next session starts from: the last close stores the descriptor's
\* content and size in the node, nothing changes them while no handle is open,
\* and the descriptor the next open builds takes them from the node, so a read
\* on the new handle returns what was written before the close.
C26_ContentPersists ==
    [][\A n \in NodeIds :
          kind[n] = "file" =>
             /\ (descriptor[n].live /\ ~descriptor'[n].live) =>
                   /\ content'[n] = descriptor[n].content
                   /\ attributes'[n]["st_size"] = descriptor[n].attributes["st_size"]
             /\ (~descriptor[n].live /\ ~descriptor'[n].live) =>
                   /\ content'[n] = content[n]
                   /\ attributes'[n]["st_size"] = attributes[n]["st_size"]
             /\ (~descriptor[n].live /\ descriptor'[n].live) =>
                   /\ descriptor'[n].content = content[n]
                   /\ descriptor'[n].attributes["st_size"] = attributes[n]["st_size"]]_vars

\* A read on the handle of a second session has just returned the two bytes
\* the first session left in the node
C26_Witness ==
    /\ res.op = "read"
    /\ res.err = "OK"
    /\ res.val = <<1, 2>>
    /\ descriptor[FileA].live
    /\ descriptor[FileA].serial = 2
    /\ content[FileA] = <<1, 2>>
    /\ Reported(FileA)["st_size"] = 2

\* C27: a node that create or mkdir builds in the in-memory backend has the
\* requested permission bits with the type of a regular file or of a directory,
\* size 0, link count 1 (file) or 2 (directory), and the uid and gid that
\* getattr reports for the parent directory when the node is built, also while
\* the parent is open; the link count reported for the parent grows by 1.
C27_CreatedAttributes ==
    [][\A t \in Threads :
          LET d == local[t].node
              n == local'[t].new
              isdir == local[t].op = "mkdir"
          IN  /\ (Stepped(t, "act", "add_get1") /\ local[t].op \in CreateVerbs) =>
                    /\ attributes'[n]["st_mode"] =
                          BitOr(IF isdir THEN S_IFDIR ELSE S_IFREG, S_IMODE(local[t].mode))
                    /\ attributes'[n]["st_size"] = 0
                    /\ attributes'[n]["st_nlink"] = IF isdir THEN 2 ELSE 1
                    /\ attributes'[n]["st_uid"] = Reported(d)["st_uid"]
                    /\ attributes'[n]["st_gid"] = Reported(d)["st_gid"]
              /\ (Stepped(t, "add_nlink", "add_get2") /\ local[t].op \in CreateVerbs) =>
                    ReportedNext(d)["st_nlink"] = Reported(d)["st_nlink"] + 1]_vars

\* The extended attributes a caller now reads as the node's
Stored(n) ==
    IF descriptor[n].live THEN descriptor[n].extra_attributes.attrs
    ELSE extra_attributes[n].attrs

\* The same after the step
StoredNext(n) ==
    IF descriptor'[n].live THEN descriptor'[n].extra_attributes.attrs
    ELSE extra_attributes'[n].attrs

\* The calls on the extended attributes of node n behave as a dictionary:
\* setxattr stores, getxattr returns the stored value or the empty one,
\* removexattr removes or fails with ENOENT, and none changes the stat-like
\* attributes
XattrLaw(n) ==
    \A t \in Threads :
       (pc[t] = "act" /\ local[t].node = n /\ pc'[t] = "idle") =>
          LET k == local[t].attr
          IN  /\ local[t].op = "setxattr" =>
                    /\ res'.err = "OK"
                    /\ k \in DOMAIN StoredNext(n)
                    /\ StoredNext(n)[k] = local[t].value
                    /\ ReportedNext(n) = Reported(n)
              /\ local[t].op = "getxattr" =>
                    /\ res'.err = "OK"
                    /\ res'.val = IF k \in DOMAIN Stored(n) THEN Stored(n)[k] ELSE ""
                    /\ StoredNext(n) = Stored(n)
                    /\ ReportedNext(n) = Reported(n)
              /\ local[t].op = "removexattr" =>
                    /\ ReportedNext(n) = Reported(n)
                    /\ IF k \in DOMAIN Stored(n)
                       THEN res'.err = "OK" /\ k \notin DOMAIN StoredNext(n)
                       ELSE res'.err = "ENOENT" /\ StoredNext(n) = Stored(n)

\* C28: on a node the in-memory backend has created, setxattr(k, v) succeeds
\* and getxattr(k) then returns v; after removexattr(k), getxattr(k) returns
\* the empty value and a second removexattr(k) fails with ENOENT and changes
\* nothing; none of the calls changes the node's stat-like attributes.
C28_XattrDictionary == [][\A n \in NodeIds \ {FileA} : XattrLaw(n)]_vars

\* C29: readdir on an open directory returns "." and ".." followed by the
\* names of the children the directory has when readdir is called, each once,
\* in ascending order; a name is an entry when create or mkdir of it has
\* returned and no entry when unlink or rmdir of it has returned, and the
\* resolution of a name that is no entry fails with ENOENT.
C29_ReaddirLists ==
    [][\A t \in Threads :
          LET d == local[t].node
              listed == res'.val
          IN  /\ (/\ pc[t] = "act" /\ local[t].op = "readdir" /\ pc'[t] = "idle"
                  /\ IsDirectoryNode(d) /\ local[t].fh \in node_descriptors[d]) =>
                    /\ res'.err = "OK"
                    /\ Len(listed) = 2 + Cardinality(Entries(d))
                    /\ listed[1] = "." /\ listed[2] = ".."
                    /\ {listed[i] : i \in 3..Len(listed)} = Entries(d)
                    /\ \A i, j \in 3..Len(listed) :
                          i < j => (listed[i] = "a" /\ listed[j] = "b")
              /\ (pc[t] # "idle" /\ pc'[t] = "idle" /\ res'.err = "OK") =>
                    /\ local[t].op \in CreateVerbs =>
                          Basename(local[t].path) \in Entries(Root)'
                    /\ local[t].op \in {"unlink", "rmdir"} =>
                          Basename(local[t].path) \notin Entries(Root)'
              /\ (/\ pc[t] = "resolve" /\ pc'[t] # "resolve" /\ IsDirectoryNode(d)
                  /\ Head(local[t].todo) \notin Entries(d)) =>
                    res'.err = "ENOENT"]_vars

\* A readdir on the handle of the root has just listed "a" before "b", with
\* "b" the older entry
C29_Witness ==
    /\ res.op = "readdir"
    /\ res.err = "OK"
    /\ res.val = <<".", "..", "a", "b">>
    /\ children[Root]["b"] = 2
    /\ children[Root]["a"] = 3

\* The node the names lead to from directory d, or NoNode when a name is no
\* entry or has to be looked up in a node that is no directory
RECURSIVE Leads(_, _)
Leads(d, names) ==
    IF names = <<>> THEN d
    ELSE IF kind[d] # "dir" \/ children[d][Head(names)] = NoNode THEN NoNode
    ELSE Leads(children[d][Head(names)], Tail(names))

\* C30: get_child(path) resolves the non-empty segments of the path from the
\* directory it is called on and ignores the empty segments that leading,
\* trailing and repeated separators make (the empty path gives the directory
\* itself); it fails with ENOENT when a segment names no child or has to be
\* looked up in a node that is no directory, and it changes no state.
C30_GetChild ==
    [][\A t \in Threads :
          local[t].op = "get_child" =>
             LET names == SelectSeq(local[t].raw, LAMBDA c : c # "/")
                 goal == Leads(Root, names)
             IN  /\ pc'[t] = "idle" =>
                       IF goal = NoNode
                       THEN res'.err = "ENOENT"
                       ELSE res'.err = "OK" /\ res'.node = goal
                 /\ UNCHANGED <<nodeVars, attrVars, handleVars, lockVars, content>>]_vars

\* The loop of get_child has reached the file below the directory for a path
\* with a leading and a repeated separator
C30_Witness ==
    \E t \in Threads :
       /\ pc[t] = "act"
       /\ local[t].op = "get_child"
       /\ local[t].raw = <<"/", "b", "/", "/", "a">>
       /\ local[t].node = FileA
       /\ children[DirB]["a"] = FileA

\* ------------------------------------------------------------- C31
\* C31: the adapter's symlink can be called in every state, whatever target and
\* source it is given; it raises ENOSYS ("not supported") and leaves the
\* children maps, the nodes, the link counts (in the nodes' attribute objects
\* and in the descriptors' copies) and the sets of open handles as they were.
C31_SymlinkUnsupported ==
    /\ [](\A t \in Threads : pc[t] = "idle" => ENABLED symlink(t))
    /\ [][res'.op = "symlink" =>
            /\ res'.err = "ENOSYS"
            /\ UNCHANGED <<kind, parent, name, children, attributes, descriptor,
                           node_descriptors, next_node_descriptor>>]_vars

\* symlink has failed while the open root has an entry and another call is
\* under way
C31_Witness ==
    /\ res.op = "symlink"
    /\ res.err = "ENOSYS"
    /\ node_descriptors[Root] # {}
    /\ \E x \in Names : children[Root][x] # NoNode
    /\ \E t \in Threads : pc[t] \notin {"idle", "resolve"}

\* ------------------------------------------------------------- C32
\* The links built in this step whose target is node g
NewLinks(g) == {l \in NodeIds : kind[l] = "free" /\ kind'[l] = "link" /\ target'[l] = g}

\* C32: the construction of a LinkNode raises the link count that
\* get_attributes reports for its target by exactly 1, with handles open on the
\* target or without, and no open or release takes the increase back: in every
\* step the reported count of a node grows by the number of links built to it.
C32_LinkCount ==
    [][\A g \in NodeIds :
          kind[g] \in {"dir", "file"} =>
             ReportedNext(g)["st_nlink"] = Reported(g)["st_nlink"] + Cardinality(NewLinks(g))]_vars

\* ------------------------------------------------------------- C33
\* The attribute mapping getattr reports for node n is the same before and
\* after the step, but for the keys in changed
SameBut(n, changed) ==
    /\ DOMAIN ReportedNext(n) = DOMAIN Reported(n)
    /\ \A k \in DOMAIN Reported(n) \ changed : ReportedNext(n)[k] = Reported(n)[k]

\* The mode of an attribute object is made of its two projections
Projected(a) ==
    "st_mode" \in DOMAIN a => a["st_mode"] = BitOr(S_IMODE(a["st_mode"]), S_IFMT(a["st_mode"]))

\* C33: the setter of chmod changes nothing that getattr reports but the
\* permission bits of st_mode: the type bits, link count, uid, gid, size and
\* the three times stay, and so does every other node; when it writes to the
\* object getattr reads, the permission bits become those of the mode passed.
\* The setters of chown change st_uid and st_gid only.  Every attribute object
\* keeps one st_mode, of which type and permission are the two projections.
C33_ChmodFrame ==
    /\ [](\A n \in NodeIds :
            /\ Projected(attributes[n])
            /\ descriptor[n].live => Projected(descriptor[n].attributes))
    /\ [][\A t \in Threads :
            pc[t] \in {"set_1", "set_2"} /\ pc'[t] # pc[t] /\ local[t].op \in {"chmod", "chown"} =>
               LET n == local[t].node
               IN  /\ \A m \in NodeIds \ {n} : kind[m] # "free" => SameBut(m, {})
                   /\ IF local[t].op = "chmod"
                      THEN /\ SameBut(n, {"st_mode"})
                           /\ S_IFMT(ReportedNext(n)["st_mode"]) = S_IFMT(Reported(n)["st_mode"])
                           /\ local[t].ref = get_attributes(n) =>
                                 S_IMODE(ReportedNext(n)["st_mode"]) = S_IMODE(local[t].mode)
                      ELSE SameBut(n, {"st_uid", "st_gid"})]_vars

\* chmod has returned on the open file, and getattr would report the new
\* permission bits under the old type
C33_Witness ==
    /\ res.op = "chmod"
    /\ res.err = "OK"
    /\ descriptor[FileA].live
    /\ Reported(FileA)["st_mode"] = BitOr(S_IFREG, 73)
    /\ Reported(FileA)["st_nlink"] = 1

\* ------------------------------------------------------------- C34
\* C34: when utimens(path, times) returns, it returns 0, the access time
\* getattr reports for the node is times[0], the modified time is times[1],
\* and between the call's start and its return nothing else that getattr
\* reports has changed.
C34_UtimensSets ==
    [][\A t \in Threads :
          local[t].op = "utimens" /\ pc[t] \in {"set_1", "set_2"} =>
             LET n == local[t].node
             IN  /\ SameBut(n, {"st_atime", "st_mtime"})
                 /\ pc'[t] = "idle" =>
                       /\ res'.err = "OK"
                       /\ ReportedNext(n)["st_atime"] = local[t].atime
                       /\ ReportedNext(n)["st_mtime"] = local[t].mtime]_vars

\* ------------------------------------------------------------- C35
\* C35: getattr with a file_info returns, for a handle id that is open on the
\* node, the attribute mapping of the node's descriptor, which is what getattr
\* without a handle returns while the node is open; for an id that is not open
\* it raises EBADF.
C35_GetattrHandle ==
    [][\A t \in Threads :
          local[t].op = "getattr_fh" /\ pc[t] = "act" /\ pc'[t] = "idle" =>
             LET n == local[t].node
             IN  IF local[t].fh \in node_descriptors[n]
                 THEN /\ res'.err = "OK"
                      /\ res'.attrs = descriptor[n].attributes
                      /\ res'.attrs = get_all(n, get_attributes(n))
                 ELSE res'.err = "EBADF"]_vars

\* ------------------------------------------------------------- C36
\* The nodes stored in the children maps of the nodes in S
StoredIn(S) == {children[d][x] : d \in S, x \in Names} \ {NoNode}

\* The nodes path resolution reaches from the nodes in S in at most k steps
\* (get_child goes on through directories only)
RECURSIVE Below(_, _)
Below(S, k) ==
    IF k = 0 THEN S
    ELSE Below(S \cup StoredIn({d \in S : kind[d] = "dir"}), k - 1)

\* C36: between calls the children maps form a tree under the root: no
\* directory is below itself, every node stored in a children map is reached
\* from the root by path resolution, and no node is stored in the maps of two
\* directories.
C36_TreeShape ==
    Quiet =>
      /\ \A d \in NodeIds : d \notin Below(StoredIn({d}), MaxNodes)
      /\ StoredIn(NodeIds) \subseteq Below({Root}, MaxNodes)
      /\ \A d, e \in NodeIds : d # e => StoredIn({d}) \cap StoredIn({e}) = {}

\* ------------------------------------------------------------- C37
\* C37: when a rename reports a failure (ENOENT or ENOTDIR for the target's
\* directory, EEXIST for the name, ENOENT for the source entry), every
\* directory but the one the old path lies in, where an unlink on another
\* thread may have been at work, has the children map and the reported link
\* count that it had when the call started.
C37_FailedRename ==
    [][\A t \in Threads :
          (local[t].op = "rename" /\ pc[t] # "idle" /\ pc'[t] = "idle" /\ res'.err # "OK") =>
             \A d \in NodeIds \ {Leads(Root, Dirname(local[t].path))} :
                 kind[d] = "dir" =>
                    /\ children'[d] = local[t].before.children[d]
                    /\ ReportedNext(d)["st_nlink"] = local[t].before.nlink[d]]_vars

\* ------------------------------------------------------------- C38
\* Node n has issued handle id h
Issued(n, h) == kind[n] # "free" /\ h \in 1..(next_node_descriptor[n] - 1)

\* C38: a read, write or release that names a path and a handle id is not let
\* through to the descriptor of the node the path resolves to when the id was
\* issued by another node that had the same path before: the call fails with
\* EBADF (or with the error of the variant check).
C38_HandleOwner ==
    [][\A t \in Threads :
          (pc[t] = "act" /\ local[t].op \in {"read", "write", "release"} /\ pc'[t] # "act"
             /\ \E n \in NodeIds \ {local[t].node} :
                   name[n] = name[local[t].node] /\ Issued(n, local[t].fh)) =>
              pc'[t] = "idle" /\ res'.err \in {"EBADF", "EISDIR"}]_vars

\* ------------------------------------------------------------- C39
\* The nodes path resolution reaches from the nodes in S on the tree the step
\* leaves
RECURSIVE BelowNext(_, _)
BelowNext(S, k) ==
    IF k = 0 THEN S
    ELSE BelowNext(S \cup ({children'[d][x] : d \in {e \in S : kind'[e] = "dir"}, x \in Names}
                             \ {NoNode}),
                   k - 1)

\* C39: an rmdir whose path names a directory other than the root returns
\* without an error, whether the directory has entries or not; the directory
\* that held it has the entry no more and getattr reports for it a link count
\* 1 below the one it reported when the call started; the removed directory
\* and all that was below it are out of reach of path resolution.
C39_RmdirNonEmpty ==
    [][\A t \in Threads :
          (local[t].op = "rmdir" /\ pc[t] \notin {"idle", "resolve"} /\ pc'[t] = "idle"
             /\ kind[local[t].node] = "dir" /\ local[t].node # Root) =>
              LET n == local[t].node
                  d == CHOOSE e \in NodeIds :
                          \E x \in Names : local[t].before.children[e][x] = n
              IN  /\ res'.err = "OK"
                  /\ \A x \in Names : children'[d][x] # n
                  /\ ReportedNext(d)["st_nlink"] = local[t].before.nlink[d] - 1
                  /\ Below({n}, MaxNodes) \cap BelowNext({Root}, MaxNodes) = {}]_vars

\* ------------------------------------------------------------- C40
\* C40: replace_child(new_child) raises ENOENT and changes no children map and
\* no attribute when the directory has no entry of new_child's name.  When it
\* returns, the directory has entries for the names it had when the call
\* started, new_child is stored under its name and every other name keeps its
\* node, getattr reports the link count it reported when the call started, and
\* it reports the time of the call as access and modified time, with handles
\* open on the directory or without.
C40_ReplaceChild ==
    [][\A t \in Threads :
          (local[t].op = "replace_child" /\ pc[t] # "idle" /\ pc'[t] = "idle") =>
              LET d == local[t].node
                  n == local[t].new
                  old == local[t].before
              IN  IF old.children[d][name[n]] = NoNode
                  THEN /\ res'.err = "ENOENT"
                       /\ UNCHANGED <<children, attributes, descriptor>>
                  ELSE /\ res'.err = "OK"
                       /\ children' = [old.children EXCEPT ![d][name[n]] = n]
                       /\ ReportedNext(d)["st_nlink"] = old.nlink[d]
                       /\ ReportedNext(d)["st_atime"] = IntTime(clock)
                       /\ ReportedNext(d)["st_mtime"] = IntTime(clock)]_vars

=============================================================================
